---- MODULE Spec2Model ----
(***************************************************************************)
(* Model of the desktop client's daemon synchronisation core:              *)
(*   - AppState (state.rs): the store and its mutation methods,            *)
(*   - handle_event (events.rs): the event applier,                        *)
(*   - start_event_loop (events.rs): the reconnect supervisor,             *)
(*   - parse_daemon_events / parse_sse_stream (api/client.rs): decoders.   *)
(* Each group of claims is checked under a specification that drives the   *)
(* part of the program it is about; the other variables stay at Init.      *)
(***************************************************************************)
EXTENDS Naturals, Integers, Sequences, FiniteSets, TLC

VARIABLES
    state,        \* the AppState global (state.rs:22-87), a record
    last_event,   \* history: the last store operation performed
    pc,           \* position of the start_event_loop task
    retry_delay,  \* events.rs:27, in milliseconds
    wait,         \* duration of the timer the supervisor sleeps on
    failures,     \* history: terminal conditions since the last handshake
    ever_connected, \* history: some handshake has succeeded
    health_pc,    \* position of the start_background_tasks task
    idle,         \* time units since the open stream last delivered bytes
    pending,      \* history: requests asked and not yet replied, per queue
    reasked,      \* history: the last step asked again a pending request id
    stream,       \* which decoder reads the connection: "daemon" or "sse"
    blocks,       \* history: the blocks the peer serialised onto the wire
    wire,         \* the bytes of the response body
    sent,         \* number of bytes of wire delivered as chunks so far
    buffer,       \* the decoder's String buffer (client.rs:349, 442)
    events,       \* the events the decoder yielded, in the order the consumer saw them
    parse_input,  \* input of the block parsers: one block's text
    sse_out,      \* parse_sse_message(parse_input), once computed
    daemon_out,   \* parse_daemon_event_message(parse_input), once computed
    delivered,    \* history: content last delivered by a message event, per message
    removed_parts, \* history: the parts the last applied message.removed deleted
    teardown,     \* the user has closed the client's window
    closed,       \* how the decoder's body stream stands: "open", "error" or "end"
    inflight,     \* the spawned HTTP tasks that will write state.messages
    reply,        \* the reply POST in flight, if any (permission_prompt.rs:305-321)
    paper,        \* a PaperTradingState (stanley-core paper_trade/state.rs:13-36)
    paper_result, \* what the last call on paper returned
    subscription  \* history: the event streams alive, by their ids 0 and 1

storeVars == <<state, last_event, pending, reasked, delivered, removed_parts>>
connVars == <<pc, retry_delay, wait, failures, ever_connected, health_pc, idle, teardown,
              subscription>>
decodeVars == <<stream, blocks, wire, sent, buffer, events, closed>>
parseVars == <<parse_input, sse_out, daemon_out>>
paperVars == <<paper, paper_result>>

----------------------------------------------------------------------------
(* Bounds of the model *)

MaxSessions == 3
MaxFailures == 11
MaxPending == 2
IdleThreshold == 2

----------------------------------------------------------------------------
(* Generic helpers: Vec and HashMap operations of the Rust standard library *)

NoValue == "None"

EmptyMap == [k \in {} |-> <<>>]

MapPut(m, k, v) == [x \in (DOMAIN m) \cup {k} |-> IF x = k THEN v ELSE m[x]]

MapRemove(m, k) == [x \in (DOMAIN m) \ {k} |-> m[x]]

\* HashMap::get(..).cloned().unwrap_or_default(): the Vec under k, or empty
MapGet(m, k) == IF k \in DOMAIN m THEN m[k] ELSE <<>>

\* Vec::insert(pos, x) with a 0-based pos
VecInsert(v, pos, x) == SubSeq(v, 1, pos) \o <<x>> \o SubSeq(v, pos + 1, Len(v))

\* Vec::retain(|x| x.id != id)
RetainOtherIds(v, id) == SelectSeq(v, LAMBDA x : x.id /= id)

\* iter().find(|x| x.id == id) / position: index of the first element with
\* that id, counted from 1; 0 stands for None
IndexOfId(v, id) ==
    IF \E i \in 1..Len(v) : v[i].id = id
    THEN CHOOSE i \in 1..Len(v) : v[i].id = id /\ \A j \in 1..(i - 1) : v[j].id /= id
    ELSE 0

Min(a, b) == IF a <= b THEN a ELSE b

\* Ord for str: byte-wise lexicographic order; ids are sequences of byte values
RECURSIVE str_lt(_, _)
str_lt(a, b) ==
    IF b = <<>> THEN FALSE
    ELSE IF a = <<>> THEN TRUE
    ELSE IF Head(a) < Head(b) THEN TRUE
    ELSE IF Head(a) > Head(b) THEN FALSE
    ELSE str_lt(Tail(a), Tail(b))

str_gt(a, b) == str_lt(b, a)

\* iter().position(|x| x.id > id): index of the first element with a greater
\* id, counted from 1; 0 stands for None
IndexOfGreaterId(v, id) ==
    IF \E i \in 1..Len(v) : str_gt(v[i].id, id)
    THEN CHOOSE i \in 1..Len(v) :
            str_gt(v[i].id, id) /\ \A j \in 1..(i - 1) : ~str_gt(v[j].id, id)
    ELSE 0

----------------------------------------------------------------------------
(* Input domains *)

SessionIds == {"s1", "s2"}
MessageIds == {"m1", "m2"}
Contents == {"a", "b"}

\* Part and request ids "p1", "p10", "p2" as byte strings: "p10" sorts between
\* "p1" and "p2"
Id_p1 == <<112, 49>>
Id_p10 == <<112, 49, 48>>
Id_p2 == <<112, 50>>
PartIds == {Id_p1, Id_p10, Id_p2}
RequestIds == {Id_p1, Id_p10, Id_p2}

Parts == [id : PartIds, message_id : MessageIds, content : Contents]
PermissionRequests == [id : RequestIds, session_id : SessionIds, permission : Contents]
QuestionRequests == [id : RequestIds, session_id : SessionIds, questions : Contents]
Messages == [id : MessageIds, session_id : SessionIds, content : Contents]
Titles == {"t1", "t2"}
Sessions == [id : SessionIds, title : Titles]

\* Session lists the daemon's GET /session can return: distinct ids
SessionLists ==
    {<<>>} \cup {<<s>> : s \in Sessions}
    \cup {l \in {<<a, b>> : a, b \in Sessions} : l[1].id /= l[2].id}

----------------------------------------------------------------------------
(* AppState and its methods (state.rs) *)

AppStateDefault ==
    [ connected |-> FALSE,
      connecting |-> FALSE,
      sessions |-> <<>>,
      active_session_id |-> NoValue,
      sessions_loading |-> TRUE,
      session_status |-> EmptyMap,
      messages |-> EmptyMap,
      streaming_message |-> <<>>,
      parts |-> EmptyMap,
      permissions |-> EmptyMap,
      questions |-> EmptyMap,
      active_view |-> "Sessions" ]

set_connected(st, connected) ==
    [st EXCEPT !.connected = connected, !.connecting = FALSE]

set_sessions(st, sessions) ==
    [st EXCEPT !.sessions = sessions, !.sessions_loading = FALSE]

add_session(st, session) ==
    [st EXCEPT !.sessions = VecInsert(st.sessions, 0, session)]

\* A plausible slip: the selection is cleared whichever session is deleted
remove_session_clear_always(st, session_id) ==
    [st EXCEPT !.sessions = RetainOtherIds(st.sessions, session_id),
               !.messages = MapRemove(st.messages, session_id),
               !.active_session_id = NoValue,
               !.active_view = "Sessions"]

remove_session(st, session_id) ==
    LET cleared == st.active_session_id = session_id
    IN  [st EXCEPT !.sessions = RetainOtherIds(st.sessions, session_id),
                   !.messages = MapRemove(st.messages, session_id),
                   !.active_session_id = IF cleared THEN NoValue ELSE @,
                   !.active_view = IF cleared THEN "Sessions" ELSE @]

update_session(st, session) ==
    LET i == IndexOfId(st.sessions, session.id)
    IN  IF i = 0 THEN st
        ELSE [st EXCEPT !.sessions[i] = session]

set_active_session(st, session_id) ==
    [st EXCEPT !.active_session_id = session_id,
               !.active_view = IF session_id /= NoValue THEN "Chat" ELSE @]

set_messages(st, session_id, messages) ==
    [st EXCEPT !.messages = MapPut(st.messages, session_id, messages)]

add_message(st, session_id, message) ==
    [st EXCEPT !.messages =
        MapPut(st.messages, session_id, Append(MapGet(st.messages, session_id), message))]

\* state.rs:320-356; Option<StreamingMessage> is <<>> or <<record>>
start_streaming(st, session_id, message_id) ==
    [st EXCEPT !.streaming_message =
        <<[session_id |-> session_id, message_id |-> message_id, content |-> <<>>,
           tool_calls |-> <<>>, reasoning |-> NoValue, is_complete |-> FALSE]>>]

update_streaming_content(st, content) ==
    IF st.streaming_message = <<>> THEN st
    ELSE [st EXCEPT !.streaming_message[1].content = @ \o content]

\* A plausible slip: the tool call is pushed without a search for its id
update_streaming_tool_call_push(st, tool_call) ==
    IF st.streaming_message = <<>> THEN st
    ELSE [st EXCEPT !.streaming_message[1].tool_calls = Append(@, tool_call)]

update_streaming_tool_call(st, tool_call) ==
    IF st.streaming_message = <<>> THEN st
    ELSE LET i == IndexOfId(st.streaming_message[1].tool_calls, tool_call.id)
         IN  IF i > 0
             THEN [st EXCEPT !.streaming_message[1].tool_calls[i] = tool_call]
             ELSE [st EXCEPT !.streaming_message[1].tool_calls = Append(@, tool_call)]

complete_streaming(st) ==
    IF st.streaming_message = <<>> THEN st
    ELSE [st EXCEPT !.streaming_message[1].is_complete = TRUE]

set_session_status(st, session_id, status) ==
    [st EXCEPT !.session_status = MapPut(st.session_status, session_id, status)]

\* state.rs:558-564, 604-610, 648-654: replace the element with item's id, or
\* insert item before the first element with a greater id
upsert_by_id(v, item) ==
    LET i == IndexOfId(v, item.id)
        g == IndexOfGreaterId(v, item.id)
    IN  IF i > 0 THEN [v EXCEPT ![i] = item]
        ELSE VecInsert(v, IF g > 0 THEN g - 1 ELSE Len(v), item)

\* A plausible slip: push the part at the end instead of its sorted position
update_part_append(st, part) ==
    LET v == MapGet(st.parts, part.message_id)
        i == IndexOfId(v, part.id)
    IN  [st EXCEPT !.parts = MapPut(st.parts, part.message_id,
            IF i > 0 THEN [v EXCEPT ![i] = part] ELSE Append(v, part))]

update_part(st, part) ==
    [st EXCEPT !.parts =
        MapPut(st.parts, part.message_id, upsert_by_id(MapGet(st.parts, part.message_id), part))]

remove_part(st, message_id, part_id) ==
    IF message_id \in DOMAIN st.parts
    THEN [st EXCEPT !.parts[message_id] = RetainOtherIds(@, part_id)]
    ELSE st

\* A plausible slip: no search for an existing request with the same id
handle_permission_asked_nofind(st, request) ==
    LET v == MapGet(st.permissions, request.session_id)
        g == IndexOfGreaterId(v, request.id)
    IN  [st EXCEPT !.permissions = MapPut(st.permissions, request.session_id,
            VecInsert(v, IF g > 0 THEN g - 1 ELSE Len(v), request))]

handle_permission_asked(st, request) ==
    [st EXCEPT !.permissions =
        MapPut(st.permissions, request.session_id,
               upsert_by_id(MapGet(st.permissions, request.session_id), request))]

\* A plausible slip: the reply removes nothing
handle_permission_replied_noop(st, session_id, request_id) == st

handle_permission_replied(st, session_id, request_id) ==
    IF session_id \in DOMAIN st.permissions
    THEN [st EXCEPT !.permissions[session_id] = RetainOtherIds(@, request_id)]
    ELSE st

handle_question_asked(st, request) ==
    [st EXCEPT !.questions =
        MapPut(st.questions, request.session_id,
               upsert_by_id(MapGet(st.questions, request.session_id), request))]

handle_question_replied(st, session_id, request_id) ==
    IF session_id \in DOMAIN st.questions
    THEN [st EXCEPT !.questions[session_id] = RetainOtherIds(@, request_id)]
    ELSE st

----------------------------------------------------------------------------
(* The event applier (events.rs:96-208) *)

message_updated(st, session_id, message) ==
    LET v == MapGet(st.messages, session_id)
        i == IndexOfId(v, message.id)
    IN  IF session_id \in DOMAIN st.messages
        THEN IF i > 0 THEN [st EXCEPT !.messages[session_id][i] = message]
             ELSE [st EXCEPT !.messages[session_id] = Append(@, message)]
        ELSE [st EXCEPT !.messages = MapPut(st.messages, session_id, <<message>>)]

\* A plausible slip: the parts of the removed message are left behind
message_removed_keep_parts(st, session_id, message_id) ==
    IF session_id \in DOMAIN st.messages
    THEN [st EXCEPT !.messages[session_id] = RetainOtherIds(@, message_id)]
    ELSE st

\* events.rs:139-148
message_removed(st, session_id, message_id) ==
    LET st1 == IF session_id \in DOMAIN st.messages
               THEN [st EXCEPT !.messages[session_id] = RetainOtherIds(@, message_id)]
               ELSE st
    IN  [st1 EXCEPT !.parts = MapRemove(st1.parts, message_id)]

handle_event(st, ev) ==
    CASE ev.type = "session.created" -> add_session(st, ev.session)
      [] ev.type = "session.updated" -> update_session(st, ev.session)
      [] ev.type = "session.deleted" -> remove_session(st, ev.session_id)
      [] ev.type = "session.status" -> set_session_status(st, ev.session_id, ev.status)
      [] ev.type = "message.created" -> add_message(st, ev.session_id, ev.message)
      [] ev.type = "message.updated" -> message_updated(st, ev.session_id, ev.message)
      [] ev.type = "message.removed" -> message_removed(st, ev.session_id, ev.message_id)
      [] ev.type = "message.part.updated" -> update_part(st, ev.part)
      [] ev.type = "message.part.removed" -> remove_part(st, ev.message_id, ev.part_id)
      [] ev.type = "permission.asked" -> handle_permission_asked(st, ev.request)
      [] ev.type = "permission.replied" ->
            handle_permission_replied(st, ev.session_id, ev.request_id)
      [] ev.type = "question.asked" -> handle_question_asked(st, ev.request)
      [] ev.type = "question.replied" ->
            handle_question_replied(st, ev.session_id, ev.request_id)
      [] ev.type = "connection.status" -> set_connected(st, ev.connected)
      [] ev.type = "keepalive" -> st

----------------------------------------------------------------------------
(* Initial state: AppState::default(), no task has run yet *)

NoEvent == [type |-> "none"]

NoPending == [k \in SessionIds \X RequestIds |-> NoValue]

NoDelivered == [k \in SessionIds \X MessageIds |-> NoValue]

StoreInit ==
    /\ state = AppStateDefault
    /\ last_event = NoEvent
    /\ pending = [permissions |-> NoPending, questions |-> NoPending]
    /\ reasked = FALSE
    /\ delivered = NoDelivered
    /\ removed_parts = <<>>

floor_delay == 100
max_retry_delay == 30000

\* No event stream has been opened; source is the id of the stream the last
\* applied event was read from, -1 for none
NoSubscription == [open |-> {}, last |-> 1, source |-> -1]

ConnInit ==
    /\ pc = "idle"
    /\ retry_delay = floor_delay
    /\ wait = 0
    /\ failures = 0
    /\ ever_connected = FALSE
    /\ health_pc = "timer"
    /\ idle = 0
    /\ teardown = FALSE
    /\ subscription = NoSubscription

\* No connection is being decoded and no block is being parsed
DecodeIdle ==
    /\ stream = "none"
    /\ blocks = <<>>
    /\ wire = <<>>
    /\ sent = 0
    /\ buffer = <<>>
    /\ events = <<>>
    /\ closed = "open"

ParseIdle ==
    /\ parse_input = <<>>
    /\ sse_out = [type |-> "pending", data |-> <<>>]
    /\ daemon_out = [type |-> "pending", data |-> <<>>]

\* No message-list load, no send and no reply request is in flight
NoReply == [kind |-> "none", request_id |-> <<>>, status |-> "none"]

LocalIdle ==
    /\ inflight = {}
    /\ reply = NoReply

\* impl Default for PaperTradingState (paper_trade/state.rs:137-153)
PaperTradingStateDefault ==
    [ active |-> FALSE,
      strategy |-> NoValue,
      strategy_name |-> NoValue,
      symbols |-> <<>>,
      capital |-> 0,
      starting_capital |-> 0,
      positions |-> <<>>,
      trades |-> <<>>,
      started_at |-> NoValue,
      updated_at |-> NoValue,
      last_session |-> <<>> ]

NoResult == [op |-> "none", args |-> <<>>, ok |-> TRUE, value |-> [kind |-> "none"]]

PaperIdle ==
    /\ paper = PaperTradingStateDefault
    /\ paper_result = NoResult

Init == StoreInit /\ ConnInit /\ DecodeIdle /\ ParseIdle /\ LocalIdle /\ PaperIdle

vars == <<state, last_event, pending, reasked, pc, retry_delay, wait, failures,
          ever_connected, health_pc, idle, stream, blocks, wire, sent, buffer,
          events, parse_input, sse_out, daemon_out, delivered, removed_parts, teardown,
          closed,
          inflight, reply, paper, paper_result, subscription>>

\* History of the message events applied: the content a message.created or
\* message.updated event delivered last for a message, until a message.removed
\* or session.deleted event for it is applied
Deliver(dl, ev) ==
    CASE ev.type \in {"message.created", "message.updated"} ->
            [dl EXCEPT ![<<ev.session_id, ev.message.id>>] = ev.message.content]
      [] ev.type = "message.removed" ->
            [dl EXCEPT ![<<ev.session_id, ev.message_id>>] = NoValue]
      [] ev.type = "session.deleted" ->
            [k \in DOMAIN dl |-> IF k[1] = ev.session_id THEN NoValue ELSE dl[k]]
      [] OTHER -> dl

\* The event loop applies one decoded event to the store (events.rs:56-60)
Apply(ev) ==
    /\ state' = handle_event(state, ev)
    /\ last_event' = ev
    /\ delivered' = Deliver(delivered, ev)
    /\ removed_parts' = IF ev.type = "message.removed"
                        THEN MapGet(state.parts, ev.message_id) ELSE <<>>

----------------------------------------------------------------------------
(* Sessions: the events and local operations that write state.sessions *)

SessionCreatedOf(sessions) ==
    \E s \in sessions :
        /\ Len(state.sessions) < MaxSessions
        /\ Apply([type |-> "session.created", session |-> s])
        /\ UNCHANGED <<pending, reasked, connVars, decodeVars, parseVars, inflight, reply, paperVars>>

SessionCreated == SessionCreatedOf(Sessions)

SessionUpdated ==
    \E s \in Sessions :
        /\ Apply([type |-> "session.updated", session |-> s])
        /\ UNCHANGED <<pending, reasked, connVars, decodeVars, parseVars, inflight, reply, paperVars>>

SessionDeleted ==
    \E id \in SessionIds :
        /\ Apply([type |-> "session.deleted", session_id |-> id])
        /\ UNCHANGED <<pending, reasked, connVars, decodeVars, parseVars, inflight, reply, paperVars>>

\* views/sessions.rs:39-47: POST /session returned the new session
CreateSessionDone ==
    \E s \in Sessions :
        /\ Len(state.sessions) < MaxSessions
        /\ state' = set_active_session(add_session(state, s), s.id)
        /\ last_event' = [type |-> "local.create_session", session |-> s]
        /\ UNCHANGED <<delivered, removed_parts, pending, reasked, connVars, decodeVars, parseVars, inflight, reply, paperVars>>

\* app.rs:77-84: the one session-list load of start_background_tasks returned
SessionsLoaded ==
    \E l \in SessionLists :
        /\ state.sessions_loading
        /\ state' = set_sessions(state, l)
        /\ last_event' = [type |-> "local.set_sessions", sessions |-> l]
        /\ UNCHANGED <<delivered, removed_parts, pending, reasked, connVars, decodeVars, parseVars, inflight, reply, paperVars>>

\* views/sessions.rs:51-56
SelectSession ==
    \E id \in SessionIds :
        /\ state' = set_active_session(state, id)
        /\ last_event' = [type |-> "local.select_session", session_id |-> id]
        /\ UNCHANGED <<delivered, removed_parts, pending, reasked, connVars, decodeVars, parseVars, inflight, reply, paperVars>>

\* app.rs:1115-1118: the delete-session confirmation dialog
ConfirmDeleteSession ==
    \E id \in SessionIds :
        /\ state' = remove_session(state, id)
        /\ last_event' = [type |-> "local.delete_session", session_id |-> id]
        /\ UNCHANGED <<delivered, removed_parts, pending, reasked, connVars, decodeVars, parseVars, inflight, reply, paperVars>>

NextSessions ==
    \/ SessionCreated
    \/ SessionUpdated
    \/ SessionDeleted
    \/ CreateSessionDone
    \/ SessionsLoaded
    \/ SelectSession
    \/ ConfirmDeleteSession

SpecSessions == Init /\ [][NextSessions]_vars

\* C1: the store's session list contains at most one Session per id, after any
\* sequence of session events, local create completions and list inflight.
C1_SessionIdsUnique ==
    \A i, j \in 1..Len(state.sessions) :
        i /= j => state.sessions[i].id /= state.sessions[j].id

SessionStatuses == {[busy |-> b] : b \in BOOLEAN}

\* The decoded events of every kind (types.rs:427-458)
DaemonEvents ==
    {[type |-> "session.created", session |-> x] : x \in Sessions}
    \cup {[type |-> "session.updated", session |-> x] : x \in Sessions}
    \cup {[type |-> "session.deleted", session_id |-> x] : x \in SessionIds}
    \cup {[type |-> "session.status", session_id |-> x, status |-> y] :
            x \in SessionIds, y \in SessionStatuses}
    \cup {[type |-> "message.created", session_id |-> x.session_id, message |-> x] :
            x \in Messages}
    \cup {[type |-> "message.updated", session_id |-> x.session_id, message |-> x] :
            x \in Messages}
    \cup {[type |-> "message.removed", session_id |-> x, message_id |-> y] :
            x \in SessionIds, y \in MessageIds}
    \cup {[type |-> "message.part.updated", part |-> x] : x \in Parts}
    \cup {[type |-> "message.part.removed", message_id |-> x, part_id |-> y] :
            x \in MessageIds, y \in PartIds}
    \cup {[type |-> "permission.asked", request |-> x] : x \in PermissionRequests}
    \cup {[type |-> "permission.replied", session_id |-> x, request_id |-> y] :
            x \in SessionIds, y \in RequestIds}
    \cup {[type |-> "question.asked", request |-> x] : x \in QuestionRequests}
    \cup {[type |-> "question.replied", session_id |-> x, request_id |-> y] :
            x \in SessionIds, y \in RequestIds}
    \cup {[type |-> "connection.status", connected |-> x] : x \in BOOLEAN}
    \cup {[type |-> "keepalive"]}

\* C12: every daemon event mutation is idempotent: applying the same decoded
\* event twice in succession leaves the store as applying it once does.
C12_EventsIdempotent ==
    \A ev \in DaemonEvents :
        handle_event(handle_event(state, ev), ev) = handle_event(state, ev)

NonAdding == {ev \in DaemonEvents : ev.type \notin {"session.created", "message.created"}}

\* The thirteen kinds that do not add unconditionally are idempotent
C12_OtherKindsIdempotent ==
    \A ev \in NonAdding :
        handle_event(handle_event(state, ev), ev) = handle_event(state, ev)

----------------------------------------------------------------------------
(* The reconnect supervisor: the task spawned by start_event_loop             *)
(* (events.rs:26-92) and the health check of start_background_tasks           *)
(* (app.rs:58-71). Both run on the foreground executor: the code between two  *)
(* awaits is one step.                                                        *)

\* A plausible slip: the doubling is not capped
next_retry_delay_nocap(d) == d * 2

\* events.rs:89
next_retry_delay(d) == Min(d * 2, max_retry_delay)

\* Daemon events that write the connection fields of the store
ConnEvents ==
    {[type |-> "connection.status", connected |-> c] : c \in BOOLEAN}
    \cup {[type |-> "keepalive"]}

\* A plausible slip: the stream of the ended connection is kept alive
EnterBackoff_leak ==
    /\ failures < MaxFailures
    /\ state' = [state EXCEPT !.connected = FALSE]
    /\ wait' = retry_delay
    /\ failures' = failures + 1
    /\ pc' = "backoff"
    /\ idle' = 0
    /\ UNCHANGED <<retry_delay, ever_connected, health_pc, teardown, last_event, delivered, removed_parts, pending, reasked, decodeVars, parseVars, inflight, reply, paperVars, subscription>>

\* events.rs:69, 78-86: the arm ends and drops the stream it held; mark as
\* disconnected, then sleep retry_delay
EnterBackoff ==
    /\ failures < MaxFailures
    /\ state' = [state EXCEPT !.connected = FALSE]
    /\ wait' = retry_delay
    /\ failures' = failures + 1
    /\ pc' = "backoff"
    /\ idle' = 0
    /\ subscription' = [subscription EXCEPT
            !.open = IF pc = "streaming" THEN @ \ {subscription.last} ELSE @]
    /\ UNCHANGED <<retry_delay, ever_connected, health_pc, teardown, last_event, delivered, removed_parts, pending, reasked, decodeVars, parseVars, inflight, reply, paperVars>>

\* events.rs:26-37: the task starts and awaits subscribe_events
StartEventLoop ==
    /\ pc = "idle"
    /\ pc' = "connecting"
    /\ UNCHANGED <<state, last_event, delivered, removed_parts, pending, reasked, retry_delay, wait, failures,
                   ever_connected, health_pc, teardown, idle, decodeVars, parseVars, inflight, reply, paperVars, subscription>>

\* events.rs:40-51: Ok(Ok(stream))
SubscribeOk ==
    /\ pc = "connecting"
    /\ retry_delay' = floor_delay
    /\ state' = set_connected(state, TRUE)
    /\ pc' = "streaming"
    /\ failures' = 0
    /\ ever_connected' = TRUE
    /\ idle' = 0
    /\ subscription' = [subscription EXCEPT !.open = @ \cup {1 - subscription.last},
                                            !.last = 1 - @]
    /\ UNCHANGED <<wait, health_pc, teardown, last_event, delivered, removed_parts, pending, reasked, decodeVars, parseVars, inflight, reply, paperVars>>

\* events.rs:70-72: Ok(Err(e)), the handshake failed
SubscribeErr ==
    /\ pc = "connecting"
    /\ EnterBackoff

\* events.rs:73-75: Err(e), the subscribe task could not be joined
SubscribeSpawnErr ==
    /\ pc = "connecting"
    /\ EnterBackoff

\* events.rs:54-60: the stream yields Ok(event)
StreamEvent ==
    \E ev \in ConnEvents :
        /\ pc = "streaming"
        /\ Apply(ev)
        /\ idle' = 0
        /\ subscription' = [subscription EXCEPT !.source = subscription.last]
        /\ UNCHANGED <<pending, reasked, pc, retry_delay, wait, failures, ever_connected, health_pc, teardown, decodeVars, parseVars, inflight, reply, paperVars>>

\* events.rs:61-64: the stream yields Err(e)
StreamReadError ==
    /\ pc = "streaming"
    /\ EnterBackoff

\* events.rs:54, 68: the stream yields None
StreamEnd ==
    /\ pc = "streaming"
    /\ EnterBackoff

\* A plausible slip: the loop is left after the sleep
BackoffElapsed_stop ==
    /\ pc = "backoff"
    /\ pc' = "stopped"
    /\ UNCHANGED <<state, last_event, delivered, removed_parts, pending, reasked, retry_delay, wait, failures,
                   ever_connected, health_pc, teardown, idle, decodeVars, parseVars, inflight, reply, paperVars, subscription>>

\* events.rs:86-90: the timer fires, the delay doubles, the loop starts over
BackoffElapsed ==
    /\ pc = "backoff"
    /\ retry_delay' = next_retry_delay(retry_delay)
    /\ pc' = "connecting"
    /\ UNCHANGED <<state, last_event, delivered, removed_parts, pending, reasked, wait, failures, ever_connected,
                   health_pc, teardown, idle, decodeVars, parseVars, inflight, reply, paperVars, subscription>>

\* The open stream stays silent for one more time unit: stream.next() at
\* events.rs:54 stays pending and no code of the supervisor runs
IdleTick ==
    /\ pc = "streaming"
    /\ idle <= IdleThreshold
    /\ idle' = idle + 1
    /\ UNCHANGED <<state, last_event, delivered, removed_parts, pending, reasked, pc, retry_delay, wait, failures,
                   ever_connected, health_pc, teardown, decodeVars, parseVars, inflight, reply, paperVars, subscription>>

\* app.rs:60
HealthTimerElapsed ==
    /\ health_pc = "timer"
    /\ health_pc' = "checking"
    /\ UNCHANGED <<state, last_event, delivered, removed_parts, pending, reasked, pc, retry_delay, wait, failures,
                   ever_connected, teardown, idle, decodeVars, parseVars, inflight, reply, paperVars, subscription>>

\* app.rs:62-71: GET /global/health answered (or failed)
HealthChecked ==
    \E healthy \in BOOLEAN :
        /\ health_pc = "checking"
        /\ state' = set_connected(state, healthy)
        /\ health_pc' = "done"
        /\ UNCHANGED <<last_event, delivered, removed_parts, pending, reasked, pc, retry_delay, wait, failures,
                       ever_connected, teardown, idle, decodeVars, parseVars, inflight, reply, paperVars, subscription>>

SubscribeReturns == SubscribeOk \/ SubscribeErr \/ SubscribeSpawnErr

\* The user closes the client's window. main.rs:33-68 registers no handler
\* for it and events.rs:26-92 holds no cancellation signal: the task spawned
\* by start_event_loop is detached and is not told. The window is opened in
\* the startup callback, after which the spawned loop has begun to run.
Teardown ==
    /\ ~teardown
    /\ pc /= "idle"
    /\ teardown' = TRUE
    /\ UNCHANGED <<state, last_event, delivered, removed_parts, pending, reasked, pc,
                   retry_delay, wait, failures, ever_connected, health_pc, idle,
                   decodeVars, parseVars, inflight, reply, paperVars, subscription>>

NextConn ==
    \/ Teardown
    \/ StartEventLoop
    \/ SubscribeOk
    \/ SubscribeErr
    \/ SubscribeSpawnErr
    \/ StreamEvent
    \/ StreamReadError
    \/ StreamEnd
    \/ BackoffElapsed
    \/ IdleTick
    \/ HealthTimerElapsed
    \/ HealthChecked

SpecConn == Init /\ [][NextConn]_vars

\* The executor runs a task whose await is ready, timers fire, an HTTP request
\* returns and time passes; what the daemon sends on an open stream, and
\* whether it closes it, is up to the daemon.
FairSpecConn ==
    /\ SpecConn
    /\ WF_vars(StartEventLoop)
    /\ WF_vars(SubscribeReturns)
    /\ WF_vars(BackoffElapsed)
    /\ WF_vars(IdleTick)
    /\ WF_vars(HealthTimerElapsed)
    /\ WF_vars(HealthChecked)

\* C2: the Connectivity flag is true only while the supervisor is in Streaming,
\* in every interleaving with the other tasks that write the store.
C2_ConnectedOnlyWhileStreaming == state.connected => pc = "streaming"

\* floor * 2^(n-1) capped at the ceiling
BackoffFormula(n) == Min(floor_delay * 2 ^ (n - 1), max_retry_delay)

\* C3: the supervisor sleeps floor * 2^(n-1) capped at the ceiling, n the
\* number of consecutive terminal conditions since the last successful
\* handshake or since start: floor, 2*floor, 4*floor for three initial
\* failures, never outside [floor, ceiling], and floor again after a handshake.
C3_BackoffSchedule ==
    pc = "backoff" =>
        /\ wait = BackoffFormula(failures)
        /\ floor_delay <= wait /\ wait <= max_retry_delay
        /\ (~ever_connected /\ failures = 1) => wait = floor_delay
        /\ (~ever_connected /\ failures = 2) => wait = 2 * floor_delay
        /\ (~ever_connected /\ failures = 3) => wait = 4 * floor_delay
        /\ (ever_connected /\ failures = 1) => wait = floor_delay

\* The tenth consecutive failure after a handshake waits the ceiling
C3_Witness ==
    pc = "backoff" /\ ever_connected /\ failures = 10 /\ wait = max_retry_delay

\* C4: an open stream that delivers no bytes for longer than the idle
\* threshold is eventually abandoned: the supervisor leaves Streaming with
\* Connectivity false and starts a backoff cycle.
C4_IdleStreamReconnects ==
    (pc = "streaming" /\ idle > IdleThreshold) ~> (pc = "backoff" /\ ~state.connected)

\* C5: every terminal condition leads to the backoff sleep, and every backoff
\* sleep is followed by another connection attempt.
C5_AlwaysRetries ==
    /\ [][(pc = "streaming" /\ pc' /= "streaming") => pc' = "backoff"]_vars
    /\ [][(pc = "connecting" /\ pc' \notin {"connecting", "streaming"}) => pc' = "backoff"]_vars
    /\ [][pc = "backoff" => pc' \in {"backoff", "connecting"}]_vars
    /\ (pc = "backoff") ~> (pc = "connecting")

\* C17: once teardown of the client is signalled, a supervisor that sleeps in
\* backoff or waits on a connect stops waiting, releases the open connection
\* and makes no further connection attempt.
C17_TeardownStopsSupervisor ==
    /\ [][(teardown /\ pc = "backoff") => pc' /= "connecting"]_vars
    /\ [][(teardown /\ pc = "connecting") => pc' /= "streaming"]_vars
    /\ (teardown /\ pc \in {"backoff", "connecting", "streaming"}) ~> (pc = "stopped")

\* A connection attempt made after the largest number of failures modelled
C5_Witness == pc = "connecting" /\ failures = MaxFailures /\ retry_delay = max_retry_delay

----------------------------------------------------------------------------
(* Message parts: the events that write state.parts *)

MessagePartUpdatedOf(parts) ==
    \E part \in parts :
        /\ Apply([type |-> "message.part.updated", part |-> part])
        /\ UNCHANGED <<pending, reasked, connVars, decodeVars, parseVars, inflight, reply, paperVars>>

MessagePartUpdated == MessagePartUpdatedOf(Parts)

MessagePartRemoved ==
    \E m \in MessageIds, p \in PartIds :
        /\ Apply([type |-> "message.part.removed", message_id |-> m, part_id |-> p])
        /\ UNCHANGED <<pending, reasked, connVars, decodeVars, parseVars, inflight, reply, paperVars>>

MessageRemoved ==
    \E sid \in SessionIds, m \in MessageIds :
        /\ Apply([type |-> "message.removed", session_id |-> sid, message_id |-> m])
        /\ UNCHANGED <<pending, reasked, connVars, decodeVars, parseVars, inflight, reply, paperVars>>

NextParts ==
    \/ MessagePartUpdated
    \/ MessagePartRemoved
    \/ MessageRemoved

SpecParts == Init /\ [][NextParts]_vars

Ids(v) == [i \in 1..Len(v) |-> v[i].id]

StrictlyIncreasingById(v) ==
    \A i \in 1..Len(v) : \A j \in 1..Len(v) : i < j => str_lt(v[i].id, v[j].id)

\* A message.part.updated event for message m is being applied in this step
PartUpdateStep(m) ==
    /\ last_event'.type = "message.part.updated"
    /\ last_event'.part.message_id = m
    /\ <<state, last_event>>' /= <<state, last_event>>

\* C8: every message's part list is strictly increasing by part id; part p2
\* then part p1 applied to an empty list give [p1, p2]; re-applying an
\* existing id replaces that part in place.
C8_PartsSortedById ==
    /\ [](\A m \in DOMAIN state.parts : StrictlyIncreasingById(state.parts[m]))
    /\ [][\A m \in MessageIds :
            (/\ PartUpdateStep(m)
             /\ Ids(MapGet(state.parts, m)) = <<Id_p2>>
             /\ last_event'.part.id = Id_p1)
            => state'.parts[m] = <<last_event'.part, state.parts[m][1]>>]_vars
    /\ [][\A m \in MessageIds : \A i \in 1..Len(MapGet(state.parts, m)) :
            (PartUpdateStep(m) /\ state.parts[m][i].id = last_event'.part.id)
            => state'.parts[m] = [state.parts[m] EXCEPT ![i] = last_event'.part]]_vars

\* p1 has just been applied after p2 (and p10 in between them)
C8_Witness ==
    /\ last_event.type = "message.part.updated"
    /\ last_event.part.id = Id_p1
    /\ last_event.part.message_id = "m1"
    /\ "m1" \in DOMAIN state.parts
    /\ Ids(state.parts["m1"]) = <<Id_p1, Id_p10, Id_p2>>

----------------------------------------------------------------------------
(* Permission and question prompts: the events that write state.permissions  *)
(* and state.questions. pending records, per queue, session and request id,  *)
(* the payload last asked and not yet replied to.                            *)

\* Number of requests in all permission and question queues
RECURSIVE SumLen(_, _)
SumLen(m, keys) ==
    IF keys = {} THEN 0
    ELSE LET k == CHOOSE x \in keys : TRUE
         IN  Len(m[k]) + SumLen(m, keys \ {k})

TotalPending ==
    SumLen(state.permissions, DOMAIN state.permissions)
    + SumLen(state.questions, DOMAIN state.questions)

PermissionAskedOf(reqs) ==
    \E req \in reqs :
        LET k == <<req.session_id, req.id>> IN
        /\ pending.permissions[k] /= NoValue \/ TotalPending < MaxPending
        /\ Apply([type |-> "permission.asked", request |-> req])
        /\ pending' = [pending EXCEPT !.permissions[k] = req.permission]
        /\ reasked' = (pending.permissions[k] \notin {NoValue, req.permission})
        /\ UNCHANGED <<connVars, decodeVars, parseVars, inflight, reply, paperVars>>

PermissionAsked == PermissionAskedOf(PermissionRequests)

PermissionReplied ==
    \E sid \in SessionIds, rid \in RequestIds :
        /\ Apply([type |-> "permission.replied", session_id |-> sid, request_id |-> rid])
        /\ pending' = [pending EXCEPT !.permissions[<<sid, rid>>] = NoValue]
        /\ reasked' = FALSE
        /\ UNCHANGED <<connVars, decodeVars, parseVars, inflight, reply, paperVars>>

QuestionAskedOf(reqs) ==
    \E req \in reqs :
        LET k == <<req.session_id, req.id>> IN
        /\ pending.questions[k] /= NoValue \/ TotalPending < MaxPending
        /\ Apply([type |-> "question.asked", request |-> req])
        /\ pending' = [pending EXCEPT !.questions[k] = req.questions]
        /\ reasked' = (pending.questions[k] \notin {NoValue, req.questions})
        /\ UNCHANGED <<connVars, decodeVars, parseVars, inflight, reply, paperVars>>

QuestionAsked == QuestionAskedOf(QuestionRequests)

\* question.replied and question.rejected decode to the same event
\* (client.rs:573-580)
QuestionReplied ==
    \E sid \in SessionIds, rid \in RequestIds :
        /\ Apply([type |-> "question.replied", session_id |-> sid, request_id |-> rid])
        /\ pending' = [pending EXCEPT !.questions[<<sid, rid>>] = NoValue]
        /\ reasked' = FALSE
        /\ UNCHANGED <<connVars, decodeVars, parseVars, inflight, reply, paperVars>>

NextPrompts ==
    \/ PermissionAsked
    \/ PermissionReplied
    \/ QuestionAsked
    \/ QuestionReplied

SpecPrompts == Init /\ [][NextPrompts]_vars

\* The step applies an asked event of the given type for a request id that is
\* pending in its session's queue with another payload
AskedAgainStep(type) ==
    /\ last_event'.type = type
    /\ reasked'
    /\ <<state, last_event>>' /= <<state, last_event>>

\* q2 is q with the entry of req's id replaced by req, that id occurring once
ReplacedInPlace(q, q2, req) ==
    LET i == IndexOfId(q, req.id)
    IN  /\ i > 0
        /\ q[i] /= req
        /\ q2 = [q EXCEPT ![i] = req]
        /\ Cardinality({j \in 1..Len(q2) : q2[j].id = req.id}) = 1

\* C9: permission.asked (or question.asked) applied again for the same session
\* and request id with a different payload leaves exactly one entry with that
\* id, holding the second payload; the other entries and their order are
\* unchanged.
C9_AskedTwiceReplaces ==
    /\ [][AskedAgainStep("permission.asked") =>
            LET req == last_event'.request
            IN  ReplacedInPlace(MapGet(state.permissions, req.session_id),
                                MapGet(state'.permissions, req.session_id), req)]_vars
    /\ [][AskedAgainStep("question.asked") =>
            LET req == last_event'.request
            IN  ReplacedInPlace(MapGet(state.questions, req.session_id),
                                MapGet(state'.questions, req.session_id), req)]_vars

\* A pending request was asked again with another payload, next to another
\* pending request of the same session
C9_Witness ==
    /\ reasked
    /\ last_event.type = "permission.asked"
    /\ last_event.request.permission = "b"
    /\ state.permissions[last_event.request.session_id] =
            <<[id |-> Id_p10, session_id |-> last_event.request.session_id, permission |-> "a"],
              last_event.request>>

\* The queue q of session sid holds exactly the pending requests of pend
QueueIsPending(q, sid, pend, field) ==
    /\ StrictlyIncreasingById(q)
    /\ \A i \in 1..Len(q) : q[i].session_id = sid
    /\ {<<q[i].id, q[i][field]>> : i \in 1..Len(q)}
         = {<<rid, pend[<<sid, rid>>]>> :
                rid \in {r \in RequestIds : pend[<<sid, r>>] /= NoValue}}

\* C10: each session's permission queue and question queue is strictly
\* increasing by request id and contains exactly the requests asked for that
\* session and not yet replied to.
C10_QueuesSortedAndPending ==
    \A sid \in SessionIds :
        /\ QueueIsPending(MapGet(state.permissions, sid), sid, pending.permissions, "permission")
        /\ QueueIsPending(MapGet(state.questions, sid), sid, pending.questions, "questions")

\* A reply has emptied the permission queue of s1 while two questions of s1
\* are pending
C10_Witness ==
    /\ last_event.type = "permission.replied"
    /\ last_event.session_id = "s1"
    /\ "s1" \in DOMAIN state.permissions
    /\ state.permissions["s1"] = <<>>
    /\ Ids(MapGet(state.questions, "s1")) = <<Id_p10, Id_p2>>

----------------------------------------------------------------------------
(* The wire decoders (api/client.rs:346-592).                                 *)
(* A String is a sequence of characters. Each character stands for the text  *)
(* it names: "event:" and "data:" for the two line prefixes, "\n" for the     *)
(* line feed, " " for a blank, a label such as "keepalive" for the bytes of   *)
(* that label, "a" for payload text that parses as the JSON the label asks    *)
(* for, "x" for payload text that does not, and "é" for a two-byte UTF-8      *)
(* character of a payload, sent as the bytes "0xC3" and "0xA9".               *)

NoneEvent == [type |-> "None", data |-> <<>>]

\* str::trim: leading and trailing white space removed
RECURSIVE TrimStart(_)
TrimStart(t) == IF t /= <<>> /\ Head(t) = " " THEN TrimStart(Tail(t)) ELSE t

RECURSIVE TrimEnd(_)
TrimEnd(t) ==
    IF t /= <<>> /\ t[Len(t)] = " " THEN TrimEnd(SubSeq(t, 1, Len(t) - 1)) ELSE t

Trim(t) == TrimEnd(TrimStart(t))

\* str::lines: the text split at every line feed
RECURSIVE Lines(_)
Lines(t) ==
    IF \E i \in 1..Len(t) : t[i] = "\n"
    THEN LET i == CHOOSE k \in 1..Len(t) : t[k] = "\n" /\ \A j \in 1..(k - 1) : t[j] /= "\n"
         IN  <<SubSeq(t, 1, i - 1)>> \o Lines(SubSeq(t, i + 1, Len(t)))
    ELSE IF t = <<>> THEN <<>> ELSE <<t>>

\* client.rs:389-395, 474-480: the loop over the lines; the last line with the
\* prefix wins. Option<String> is [some, value].
RECURSIVE LastField(_, _)
LastField(ls, prefix) ==
    IF ls = <<>> THEN [some |-> FALSE, value |-> <<>>]
    ELSE LET l == ls[Len(ls)]
         IN  IF l /= <<>> /\ l[1] = prefix
             THEN [some |-> TRUE, value |-> Trim(Tail(l))]
             ELSE LastField(SubSeq(ls, 1, Len(ls) - 1), prefix)

\* serde_json::from_str::<T>(&data).is_ok()
json_parses(data) == data /= <<>> /\ \A i \in 1..Len(data) : data[i] /= "x"

\* Message::default(), client.rs:425
DefaultMessage == <<"default">>

\* A plausible slip: a missing event: line discards the block, as on the
\* daemon stream
parse_sse_message_nodefault(msg) ==
    LET event_type == LastField(Lines(msg), "event:")
        data == LastField(Lines(msg), "data:")
    IN  IF ~data.some \/ ~event_type.some THEN NoneEvent
        ELSE [type |-> "Content", data |-> data.value]

\* A plausible slip: a label outside the vocabulary discards the block, as on
\* the daemon stream
parse_sse_message_known_only(msg) ==
    LET event_type_opt == LastField(Lines(msg), "event:")
        data_opt == LastField(Lines(msg), "data:")
        data == data_opt.value
        event_type == IF event_type_opt.some THEN event_type_opt.value ELSE <<"message">>
    IN  IF ~data_opt.some THEN NoneEvent
        ELSE CASE event_type \in {<<"content">>, <<"text">>, <<"message">>} ->
                    [type |-> "Content", data |-> data]
               [] event_type = <<"tool_call_start">> ->
                    IF json_parses(data) THEN [type |-> "ToolCallStart", data |-> data]
                    ELSE NoneEvent
               [] event_type = <<"tool_call_end">> ->
                    IF json_parses(data) THEN [type |-> "ToolCallEnd", data |-> data]
                    ELSE NoneEvent
               [] event_type = <<"reasoning">> -> [type |-> "Reasoning", data |-> data]
               [] event_type \in {<<"done">>, <<"end">>} ->
                    IF json_parses(data) THEN [type |-> "Done", data |-> data]
                    ELSE [type |-> "Done", data |-> DefaultMessage]
               [] event_type = <<"error">> -> [type |-> "Error", data |-> data]
               [] OTHER -> NoneEvent

\* client.rs:385-436
parse_sse_message(msg) ==
    LET event_type_opt == LastField(Lines(msg), "event:")
        data_opt == LastField(Lines(msg), "data:")
        data == data_opt.value
        event_type == IF event_type_opt.some THEN event_type_opt.value ELSE <<"message">>
    IN  IF ~data_opt.some THEN NoneEvent
        ELSE CASE event_type \in {<<"content">>, <<"text">>} ->
                    [type |-> "Content", data |-> data]
               [] event_type = <<"tool_call_start">> ->
                    IF json_parses(data) THEN [type |-> "ToolCallStart", data |-> data]
                    ELSE NoneEvent
               [] event_type = <<"tool_call_end">> ->
                    IF json_parses(data) THEN [type |-> "ToolCallEnd", data |-> data]
                    ELSE NoneEvent
               [] event_type = <<"reasoning">> -> [type |-> "Reasoning", data |-> data]
               [] event_type \in {<<"done">>, <<"end">>} ->
                    IF json_parses(data) THEN [type |-> "Done", data |-> data]
                    ELSE [type |-> "Done", data |-> DefaultMessage]
               [] event_type = <<"error">> -> [type |-> "Error", data |-> data]
               [] OTHER -> [type |-> "Content", data |-> data]

\* client.rs:485-591: the labels with a payload schema, and the event each gives
DaemonPayloadLabels ==
    {"session.created", "session.updated", "session.deleted", "session.status",
     "message.created", "message.updated", "message.removed",
     "message.part.updated", "message.part.removed",
     "permission.asked", "permission.replied",
     "question.asked", "question.replied", "question.rejected",
     "connection.status"}

DaemonEventType(label) ==
    IF label = "question.rejected" THEN "question.replied" ELSE label

\* client.rs:470-592
parse_daemon_event_message(msg) ==
    LET event_type_opt == LastField(Lines(msg), "event:")
        data_opt == LastField(Lines(msg), "data:")
        data == data_opt.value
        event_type == event_type_opt.value
    IN  IF ~data_opt.some THEN NoneEvent
        ELSE IF ~event_type_opt.some THEN NoneEvent
        ELSE IF Len(event_type) = 1 /\ event_type[1] \in DaemonPayloadLabels
             THEN IF json_parses(data)
                  THEN [type |-> DaemonEventType(event_type[1]), data |-> data]
                  ELSE NoneEvent
        ELSE IF event_type = <<"keepalive">> THEN [type |-> "keepalive", data |-> <<>>]
        ELSE NoneEvent

----------------------------------------------------------------------------
(* The two block parsers as pure functions of one block's text *)

MaxLines == 2

ParseLabels == {"keepalive", "session.deleted", "content", "zzz"}

ParseLines ==
    {<<"event:", " ", l>> : l \in ParseLabels}
    \cup {<<"event:", "done", " ">>}
    \cup {<<"data:", " ", "a">>, <<"data:", "é", " ">>, <<"data:">>, <<"data:", " ", "x">>}
    \cup {<<" ", "data:", "a">>, <<":", "a">>}

\* The lines joined by line feeds
RECURSIVE JoinLines(_)
JoinLines(ls) ==
    IF ls = <<>> THEN <<>>
    ELSE IF Len(ls) = 1 THEN ls[1]
    ELSE ls[1] \o <<"\n">> \o JoinLines(Tail(ls))

LineSeqs == UNION {[1..n -> ParseLines] : n \in 1..MaxLines}

Pending == [type |-> "pending", data |-> <<>>]

ParseInputs ==
    /\ parse_input \in {JoinLines(ls) : ls \in LineSeqs}
    /\ sse_out = Pending
    /\ daemon_out = Pending

ParseSse ==
    /\ sse_out = Pending
    /\ sse_out' = parse_sse_message(parse_input)
    /\ UNCHANGED <<parse_input, daemon_out, storeVars, connVars, decodeVars, inflight, reply, paperVars>>

ParseDaemon ==
    /\ daemon_out = Pending
    /\ daemon_out' = parse_daemon_event_message(parse_input)
    /\ UNCHANGED <<parse_input, sse_out, storeVars, connVars, decodeVars, inflight, reply, paperVars>>

NextParse == ParseSse \/ ParseDaemon

InitParse == StoreInit /\ ConnInit /\ DecodeIdle /\ LocalIdle /\ PaperIdle /\ ParseInputs

SpecParse == InitParse /\ [][NextParse]_vars

\* The data: lines and event: lines of a text, by the wire format (spec 4.1)
DataLineIndexes(t) == {i \in 1..Len(Lines(t)) : Lines(t)[i] /= <<>> /\ Lines(t)[i][1] = "data:"}
EventLineIndexes(t) == {i \in 1..Len(Lines(t)) : Lines(t)[i] /= <<>> /\ Lines(t)[i][1] = "event:"}

Max(S) == CHOOSE x \in S : \A y \in S : y <= x

\* The payload of the last data: line, without the prefix and outer blanks
LastPayload(t) ==
    LET l == Lines(t)[Max(DataLineIndexes(t))]
        body == SubSeq(l, 2, Len(l))
        nonblank == {i \in 1..Len(body) : body[i] /= " "}
    IN  IF nonblank = {} THEN <<>>
        ELSE SubSeq(body, CHOOSE i \in nonblank : \A j \in nonblank : i <= j, Max(nonblank))

\* C7: a block with a data: line and no event: line decodes to Content with the
\* payload on the message-generation stream and to no event on the daemon
\* stream; a block with no data: line decodes to no event on either stream.
C7_DataOnlyAndNoDataBlocks ==
    /\ (sse_out /= Pending /\ DataLineIndexes(parse_input) /= {}
            /\ EventLineIndexes(parse_input) = {})
        => sse_out = [type |-> "Content", data |-> LastPayload(parse_input)]
    /\ (daemon_out /= Pending /\ DataLineIndexes(parse_input) /= {}
            /\ EventLineIndexes(parse_input) = {})
        => daemon_out = NoneEvent
    /\ (sse_out /= Pending /\ DataLineIndexes(parse_input) = {}) => sse_out = NoneEvent
    /\ (daemon_out /= Pending /\ DataLineIndexes(parse_input) = {}) => daemon_out = NoneEvent

\* A data-only block with a padded two-byte character has been parsed by both
C7_Witness ==
    /\ parse_input = <<"data:", "é", " ">>
    /\ sse_out = [type |-> "Content", data |-> <<"é">>]
    /\ daemon_out = NoneEvent

----------------------------------------------------------------------------
(* The stream decoders: chunks of the response body are decoded, appended to  *)
(* the buffer and cut into blocks at every blank line (client.rs:346-382,     *)
(* 439-467). The consumer takes each yielded event before the decoder runs    *)
(* on, so events is also the order in which the event loop applies them       *)
(* (events.rs:54-60).                                                         *)

MaxBlocks == 2

\* String::from_utf8(bytes).is_ok(): every lead byte 0xC3 is followed by its
\* continuation byte 0xA9 inside the chunk, and no continuation byte stands alone
utf8_valid(bytes) ==
    \A i \in 1..Len(bytes) :
        /\ bytes[i] = "0xC3" => (i < Len(bytes) /\ bytes[i + 1] = "0xA9")
        /\ bytes[i] = "0xA9" => (i > 1 /\ bytes[i - 1] = "0xC3")

\* String::from_utf8(bytes).unwrap(), for valid bytes
RECURSIVE utf8_decode(_)
utf8_decode(bytes) ==
    IF bytes = <<>> THEN <<>>
    ELSE IF Head(bytes) = "0xC3" THEN <<"é">> \o utf8_decode(Tail(Tail(bytes)))
    ELSE <<Head(bytes)>> \o utf8_decode(Tail(bytes))

\* The UTF-8 bytes of a text, as the peer sends them
RECURSIVE utf8_encode(_)
utf8_encode(t) ==
    IF t = <<>> THEN <<>>
    ELSE IF Head(t) = "é" THEN <<"0xC3", "0xA9">> \o utf8_encode(Tail(t))
    ELSE <<Head(t)>> \o utf8_encode(Tail(t))

\* buffer.find("\n\n"): index of the first blank line, counted from 1; 0 is None
FindBlankLine(buf) ==
    IF \E i \in 1..(Len(buf) - 1) : buf[i] = "\n" /\ buf[i + 1] = "\n"
    THEN CHOOSE i \in 1..(Len(buf) - 1) :
            /\ buf[i] = "\n" /\ buf[i + 1] = "\n"
            /\ \A j \in 1..(i - 1) : ~(buf[j] = "\n" /\ buf[j + 1] = "\n")
    ELSE 0

\* A plausible slip: a block that yields no event ends the draining and the
\* rest of the buffer is thrown away
RECURSIVE DrainDaemon_stop(_)
DrainDaemon_stop(buf) ==
    LET pos == FindBlankLine(buf)
    IN  IF pos = 0 THEN [buffer |-> buf, events |-> <<>>]
        ELSE LET ev == parse_daemon_event_message(SubSeq(buf, 1, pos - 1))
                 rest == DrainDaemon_stop(SubSeq(buf, pos + 2, Len(buf)))
             IN  IF ev = NoneEvent THEN [buffer |-> <<>>, events |-> <<>>]
                 ELSE [buffer |-> rest.buffer, events |-> <<ev>> \o rest.events]

\* client.rs:450-457: cut every complete block off the buffer and yield its event
RECURSIVE DrainDaemon(_)
DrainDaemon(buf) ==
    LET pos == FindBlankLine(buf)
    IN  IF pos = 0 THEN [buffer |-> buf, events |-> <<>>]
        ELSE LET ev == parse_daemon_event_message(SubSeq(buf, 1, pos - 1))
                 rest == DrainDaemon(SubSeq(buf, pos + 2, Len(buf)))
             IN  [buffer |-> rest.buffer,
                  events |-> (IF ev = NoneEvent THEN <<>> ELSE <<ev>>) \o rest.events]

\* client.rs:358-365
RECURSIVE DrainSse(_)
DrainSse(buf) ==
    LET pos == FindBlankLine(buf)
    IN  IF pos = 0 THEN [buffer |-> buf, events |-> <<>>]
        ELSE LET ev == parse_sse_message(SubSeq(buf, 1, pos - 1))
                 rest == DrainSse(SubSeq(buf, pos + 2, Len(buf)))
             IN  [buffer |-> rest.buffer,
                  events |-> (IF ev = NoneEvent THEN <<>> ELSE <<ev>>) \o rest.events]

\* Blocks a peer can send: an optional event: line and an optional data: line
Block(has_event, label, has_data, payload) ==
    [has_event |-> has_event, label |-> label, has_data |-> has_data, payload |-> payload]

WireBlocks ==
    { Block(TRUE, "keepalive", TRUE, <<"a">>),
      Block(TRUE, "session.deleted", TRUE, <<"a">>),
      Block(TRUE, "session.updated", TRUE, <<"a", "é">>),
      Block(TRUE, "question.rejected", TRUE, <<"x">>),
      Block(TRUE, "zzz", TRUE, <<"a">>),
      Block(TRUE, "content", TRUE, <<"é">>),
      Block(TRUE, "done", TRUE, <<"x">>),
      Block(TRUE, "tool_call_start", TRUE, <<"x">>),
      Block(FALSE, "", TRUE, <<"a">>),
      Block(TRUE, "keepalive", FALSE, <<>>) }

\* The block's text: its lines, and the blank line that closes it (spec 6)
BlockText(b) ==
    JoinLines((IF b.has_event THEN <<(<<"event:", " ", b.label>>)>> ELSE <<>>)
              \o (IF b.has_data THEN <<(<<"data:", " ">> \o b.payload)>> ELSE <<>>))
    \o <<"\n", "\n">>

RECURSIVE WireOf(_)
WireOf(bs) == IF bs = <<>> THEN <<>> ELSE utf8_encode(BlockText(Head(bs))) \o WireOf(Tail(bs))

InitDecode ==
    /\ StoreInit /\ ConnInit /\ ParseIdle /\ LocalIdle /\ PaperIdle
    /\ stream \in {"daemon", "sse"}
    /\ blocks \in UNION {[1..n -> WireBlocks] : n \in 1..MaxBlocks}
    /\ wire = WireOf(blocks)
    /\ sent = 0
    /\ buffer = <<>>
    /\ events = <<>>
    /\ closed = "open"

\* client.rs:351-366, 444-458: the body stream yields Ok(bytes), a chunk of any
\* length; a chunk that is not valid UTF-8 on its own is skipped
FeedChunk ==
    \E n \in 1..(Len(wire) - sent) :
        LET bytes == SubSeq(wire, sent + 1, sent + n)
            buf == buffer \o utf8_decode(bytes)
            out == IF stream = "daemon" THEN DrainDaemon(buf) ELSE DrainSse(buf)
        IN  /\ closed = "open"
            /\ sent' = sent + n
            /\ IF utf8_valid(bytes)
               THEN buffer' = out.buffer /\ events' = events \o out.events
               ELSE UNCHANGED <<buffer, events>>
            /\ UNCHANGED <<stream, blocks, wire, closed, storeVars, connVars, parseVars, inflight, reply, paperVars>>

\* The item a decoder yields for a failed read: Err(anyhow!(..))
ErrItem == [type |-> "Err", data |-> <<>>]

\* client.rs:368-371, 460-463: the body stream yields Err(e); the decoder
\* yields the error and breaks. The message decoder then still runs its
\* trailing-buffer step (client.rs:375-380).
ReadError ==
    LET last == parse_sse_message(buffer)
    IN  /\ closed = "open"
        /\ closed' = "error"
        /\ events' = events \o <<ErrItem>>
                      \o (IF stream = "sse" /\ buffer /= <<>> /\ last /= NoneEvent
                          THEN <<last>> ELSE <<>>)
        /\ UNCHANGED <<stream, blocks, wire, sent, buffer, storeVars, connVars, parseVars,
                       inflight, reply, paperVars>>

\* A plausible slip: the message decoder drops what is left in the buffer too
EndOfStream_noflush ==
    /\ closed = "open"
    /\ sent = Len(wire)
    /\ closed' = "end"
    /\ UNCHANGED <<stream, blocks, wire, sent, buffer, events, storeVars, connVars, parseVars,
                   inflight, reply, paperVars>>

\* client.rs:350, 375-380, 444: the body stream yields None after the last
\* chunk; the message decoder parses what is left in the buffer
EndOfStream ==
    LET last == parse_sse_message(buffer)
    IN  /\ closed = "open"
        /\ sent = Len(wire)
        /\ closed' = "end"
        /\ events' = events
                      \o (IF stream = "sse" /\ buffer /= <<>> /\ last /= NoneEvent
                          THEN <<last>> ELSE <<>>)
        /\ UNCHANGED <<stream, blocks, wire, sent, buffer, storeVars, connVars, parseVars,
                       inflight, reply, paperVars>>

NextDecode ==
    \/ FeedChunk
    \/ ReadError
    \/ EndOfStream

SpecDecode == InitDecode /\ [][NextDecode]_vars

\* A two-line block the daemon vocabulary describes, with a payload of its schema
WellFormedDaemonBlock(b) ==
    /\ b.has_event /\ b.has_data
    /\ b.label \in DaemonPayloadLabels \cup {"keepalive"}
    /\ \A i \in 1..Len(b.payload) : b.payload[i] /= "x"
    /\ b.payload /= <<>>

\* The event the block stands for (spec 6, the table of daemon labels)
DaemonEventOf(b) ==
    IF b.label = "keepalive" THEN [type |-> "keepalive", data |-> <<>>]
    ELSE [type |-> IF b.label = "question.rejected" THEN "question.replied" ELSE b.label,
          data |-> b.payload]

\* C6: the bytes of N well-formed two-line blocks, each closed by a blank line,
\* decode to exactly N events in wire order, applied in that order, however
\* the bytes are split into chunks.
C6_ChunkBoundaryIndependence ==
    (/\ stream = "daemon"
     /\ sent = Len(wire)
     /\ closed /= "error"
     /\ \A i \in 1..Len(blocks) : WellFormedDaemonBlock(blocks[i]))
    => events = [i \in 1..Len(blocks) |-> DaemonEventOf(blocks[i])]

\* The events of the well-formed blocks of bs, in wire order
RECURSIVE DaemonEventsOf(_)
DaemonEventsOf(bs) ==
    IF bs = <<>> THEN <<>>
    ELSE (IF WellFormedDaemonBlock(Head(bs)) THEN <<DaemonEventOf(Head(bs))>> ELSE <<>>)
         \o DaemonEventsOf(Tail(bs))

IsPrefix(a, b) == Len(a) <= Len(b) /\ a = SubSeq(b, 1, Len(a))

\* No chunk can split a character: the wire holds single-byte characters only
SingleByteWire == \A i \in 1..Len(wire) : wire[i] \notin {"0xC3", "0xA9"}

SingleByteBlocks ==
    {b \in WireBlocks : \A i \in 1..Len(b.payload) : b.payload[i] /= "é"}

\* A daemon connection whose blocks hold single-byte characters only
InitDiscard ==
    /\ StoreInit /\ ConnInit /\ ParseIdle /\ LocalIdle /\ PaperIdle
    /\ stream = "daemon"
    /\ blocks \in UNION {[1..n -> SingleByteBlocks] : n \in 1..MaxBlocks}
    /\ wire = WireOf(blocks)
    /\ sent = 0
    /\ buffer = <<>>
    /\ events = <<>>
    /\ closed = "open"

SpecDiscard == InitDiscard /\ [][NextDecode]_vars

----------------------------------------------------------------------------
(* Messages: the events that write state.messages. The event's session id is *)
(* the message's own (client.rs:518-533).                                    *)

MaxMessages == 2
MaxLoads == 1

\* Number of messages in all message lists
TotalMessages == SumLen(state.messages, DOMAIN state.messages)

InList(st, session_id, message_id) ==
    \E i \in 1..Len(MapGet(st.messages, session_id)) :
        st.messages[session_id][i].id = message_id

MessageCreatedOf(msgs) ==
    \E m \in msgs :
        /\ TotalMessages < MaxMessages
        /\ Apply([type |-> "message.created", session_id |-> m.session_id, message |-> m])
        /\ UNCHANGED <<pending, reasked, connVars, decodeVars, parseVars, inflight, reply, paperVars>>

MessageCreated == MessageCreatedOf(Messages)

MessageUpdatedOf(msgs) ==
    \E m \in msgs :
        /\ InList(state, m.session_id, m.id) \/ TotalMessages < MaxMessages
        /\ Apply([type |-> "message.updated", session_id |-> m.session_id, message |-> m])
        /\ UNCHANGED <<pending, reasked, connVars, decodeVars, parseVars, inflight, reply, paperVars>>

MessageUpdated == MessageUpdatedOf(Messages)

\* Removal of a message that owns parts: the messages of one session and the
\* parts of its messages
OwnedMessages == {m \in Messages : m.session_id = "s1" /\ m.content = "a"}
OwnedParts == {p \in Parts : p.content = "a"}

OwnedMessageCreated == MessageCreatedOf(OwnedMessages)
OwnedPartUpdated == MessagePartUpdatedOf(OwnedParts)

NextRemoval ==
    \/ OwnedMessageCreated
    \/ OwnedPartUpdated
    \/ MessageRemoved

SpecRemoval == Init /\ [][NextRemoval]_vars

\* C11: applying message.removed removes the message from its session's list
\* and leaves no parts keyed to that message id, in one step: no step takes the
\* message away and leaves its parts, and none takes the parts away and leaves
\* the message in the event's session.
C11_MessageRemovedWithParts ==
    /\ [][\A sid \in SessionIds, mid \in MessageIds :
            (/\ last_event'.type = "message.removed"
             /\ last_event'.session_id = sid /\ last_event'.message_id = mid
             /\ <<state, last_event>>' /= <<state, last_event>>)
            => (~InList(state', sid, mid) /\ mid \notin DOMAIN state'.parts)]_vars
    /\ [][\A sid \in SessionIds, mid \in MessageIds :
            (InList(state, sid, mid) /\ ~InList(state', sid, mid))
            => mid \notin DOMAIN state'.parts]_vars
    /\ [][\A mid \in MessageIds :
            (mid \in DOMAIN state.parts /\ mid \notin DOMAIN state'.parts)
            => (/\ last_event'.type = "message.removed"
                /\ last_event'.message_id = mid
                /\ ~InList(state', last_event'.session_id, mid))]_vars

\* message.removed has just deleted m1 of s1 and its three parts, next to m2
\* and its part
C11_Witness ==
    /\ last_event.type = "message.removed"
    /\ last_event.session_id = "s1" /\ last_event.message_id = "m1"
    /\ delivered[<<"s1", "m1">>] = NoValue
    /\ Ids(removed_parts) = <<Id_p1, Id_p10, Id_p2>>
    /\ "m1" \notin DOMAIN state.parts
    /\ Ids(MapGet(state.messages, "s1")) = <<"m2">>
    /\ Len(MapGet(state.parts, "m2")) = 1

----------------------------------------------------------------------------
(* Replies to prompts: the dialogs post the user's answer and leave the store *)
(* to the event stream (permission_prompt.rs:305-321,                         *)
(* question_prompt.rs:431-447). reply follows one POST at a time: "sent"      *)
(* while it is in flight, "ok" or "failed" once it has returned.              *)

InQueue(q, session_id, request_id) ==
    \E i \in 1..Len(MapGet(q, session_id)) : q[session_id][i].id = request_id

\* A plausible slip: the dialog takes the answered request off its queue
SendPermissionReply_optimistic ==
    \E sid \in SessionIds, rid \in RequestIds :
        /\ reply.status /= "sent"
        /\ InQueue(state.permissions, sid, rid)
        /\ reply' = [kind |-> "permission", request_id |-> rid, status |-> "sent"]
        /\ state' = handle_permission_replied(state, sid, rid)
        /\ UNCHANGED <<last_event, delivered, removed_parts, pending, reasked, connVars,
                       decodeVars, parseVars, inflight, paperVars>>

\* permission_prompt.rs:298-300, 305-321: a click on a decision of a pending
\* request spawns the POST on the runtime
SendPermissionReply ==
    \E sid \in SessionIds, rid \in RequestIds :
        /\ reply.status /= "sent"
        /\ InQueue(state.permissions, sid, rid)
        /\ reply' = [kind |-> "permission", request_id |-> rid, status |-> "sent"]
        /\ UNCHANGED <<storeVars, connVars, decodeVars, parseVars, inflight, paperVars>>

\* question_prompt.rs:431-447
SendQuestionReply ==
    \E sid \in SessionIds, rid \in RequestIds :
        /\ reply.status /= "sent"
        /\ InQueue(state.questions, sid, rid)
        /\ reply' = [kind |-> "question", request_id |-> rid, status |-> "sent"]
        /\ UNCHANGED <<storeVars, connVars, decodeVars, parseVars, inflight, paperVars>>

\* permission_prompt.rs:316-320, question_prompt.rs:442-446: the POST returns;
\* an error is logged
ReplyReturned ==
    \E ok \in BOOLEAN :
        /\ reply.status = "sent"
        /\ reply' = [reply EXCEPT !.status = IF ok THEN "ok" ELSE "failed"]
        /\ UNCHANGED <<storeVars, connVars, decodeVars, parseVars, inflight, paperVars>>

\* The requests the reply dialogs are followed for
RepliedPermissions ==
    {r \in PermissionRequests : r.permission = "a" /\ r.id \in {Id_p1, Id_p2}}
RepliedQuestions ==
    {r \in QuestionRequests : r.questions = "a" /\ r.id \in {Id_p1, Id_p2}}

RepliedPermissionAsked == PermissionAskedOf(RepliedPermissions)
RepliedQuestionAsked == QuestionAskedOf(RepliedQuestions)

NextReplies ==
    \/ RepliedPermissionAsked
    \/ RepliedQuestionAsked
    \/ PermissionReplied
    \/ QuestionReplied
    \/ SendPermissionReply
    \/ SendQuestionReply
    \/ ReplyReturned

SpecReplies == Init /\ [][NextReplies]_vars

\* C14: sending a reply, and its return with success or failure, never change
\* the store; a pending request leaves its session's queue only in the step
\* that applies a permission.replied (question.replied / question.rejected)
\* event with its session id and request id.
C14_ReplyLeavesStore ==
    /\ [][reply' /= reply => state' = state]_vars
    /\ [][\A sid \in SessionIds, rid \in RequestIds :
            (InQueue(state.permissions, sid, rid) /\ ~InQueue(state'.permissions, sid, rid))
            => (/\ reply' = reply
                /\ last_event' = [type |-> "permission.replied",
                                  session_id |-> sid, request_id |-> rid])]_vars
    /\ [][\A sid \in SessionIds, rid \in RequestIds :
            (InQueue(state.questions, sid, rid) /\ ~InQueue(state'.questions, sid, rid))
            => (/\ reply' = reply
                /\ last_event' = [type |-> "question.replied",
                                  session_id |-> sid, request_id |-> rid])]_vars

\* The reply to permission p1 has returned with success, and p1 is still
\* pending in s1 next to a question whose reply failed before
C14_Witness ==
    /\ reply = [kind |-> "permission", request_id |-> Id_p1, status |-> "ok"]
    /\ InQueue(state.permissions, "s1", Id_p1)
    /\ InQueue(state.questions, "s1", Id_p2)
    /\ last_event.type = "question.asked"

----------------------------------------------------------------------------
(* The message lists: the message events and the local tasks that write      *)
(* state.messages. inflight holds the spawned tasks whose HTTP request has    *)
(* not returned: the message-list load of a session (app.rs:142-159) and the *)
(* send of a message (views/chat.rs:54-96).                                  *)

\* The session whose message list this specification follows, and its messages
FollowedSessions == {"s1"}
SessionMessages == {m \in Messages : m.session_id \in FollowedSessions}

\* Message lists GET /session/{id}/message can return: distinct ids
MessageListsOf(session_id) ==
    LET ms == {m \in Messages : m.session_id = session_id}
    IN  {<<>>} \cup {<<m>> : m \in ms}
        \cup {l \in {<<a, b>> : a, b \in ms} : l[1].id /= l[2].id}

SessionMessageCreated == MessageCreatedOf(SessionMessages)
SessionMessageUpdated == MessageUpdatedOf(SessionMessages)

\* A spawned task: its kind, its session, and for a load whether the daemon has
\* answered and with which list
LoadTask(session_id, served, snapshot) ==
    [kind |-> "load", session_id |-> session_id, served |-> served, snapshot |-> snapshot]

SendTask(session_id) ==
    [kind |-> "send", session_id |-> session_id, served |-> FALSE, snapshot |-> <<>>]

\* The list holds every message the event stream has delivered so far
HoldsDelivered(l, session_id) ==
    \A mid \in MessageIds :
        delivered[<<session_id, mid>>] /= NoValue =>
            \E i \in 1..Len(l) :
                l[i].id = mid /\ l[i].content = delivered[<<session_id, mid>>]

\* app.rs:130-139: the session is selected and its message list is requested
SetSession ==
    \E sid \in FollowedSessions :
        /\ Cardinality({t \in inflight : t.kind = "load"}) < MaxLoads
        /\ state' = set_active_session(state, sid)
        /\ inflight' = inflight \cup {LoadTask(sid, FALSE, <<>>)}
        /\ last_event' = [type |-> "local.set_session", session_id |-> sid]
        /\ UNCHANGED <<delivered, removed_parts, pending, reasked, connVars, decodeVars,
                       parseVars, reply, paperVars>>

\* client.get_messages (app.rs:150): the daemon answers the request with its
\* list of the session's messages, which is not behind the events the client
\* has applied; the response is on its way
LoadServed ==
    \E t \in inflight : \E l \in MessageListsOf(t.session_id) :
        /\ t.kind = "load" /\ ~t.served
        /\ HoldsDelivered(l, t.session_id)
        /\ inflight' = (inflight \ {t}) \cup {LoadTask(t.session_id, TRUE, l)}
        /\ UNCHANGED <<storeVars, connVars, decodeVars, parseVars, reply, paperVars>>

\* app.rs:148-157: the request returned; a list replaces the session's
\* messages, a failure changes nothing
LoadReturned ==
    \E t \in inflight :
        /\ t.kind = "load"
        /\ inflight' = inflight \ {t}
        /\ \/ /\ t.served
              /\ TotalMessages - Len(MapGet(state.messages, t.session_id)) + Len(t.snapshot)
                        <= MaxMessages
              /\ state' = set_messages(state, t.session_id, t.snapshot)
              /\ last_event' = [type |-> "local.set_messages",
                                session_id |-> t.session_id, messages |-> t.snapshot]
           \/ UNCHANGED <<state, last_event>>
        /\ UNCHANGED <<delivered, removed_parts, pending, reasked, connVars, decodeVars,
                       parseVars, reply, paperVars>>

\* views/chat.rs:36-60: a prompt is submitted for the active session while no
\* other send is running
SendMessage ==
    /\ state.active_session_id /= NoValue
    /\ \A t \in inflight : t.kind /= "send"
    /\ inflight' = inflight \cup {SendTask(state.active_session_id)}
    /\ UNCHANGED <<storeVars, connVars, decodeVars, parseVars, reply, paperVars>>

\* views/chat.rs:66-81: the POST returned; the message it carries is added
SendMessageDone ==
    \E t \in inflight :
        /\ t.kind = "send"
        /\ inflight' = inflight \ {t}
        /\ \/ \E m \in {x \in Messages : x.session_id = t.session_id} :
                /\ TotalMessages < MaxMessages
                /\ state' = add_message(state, t.session_id, m)
                /\ last_event' = [type |-> "local.add_message",
                                  session_id |-> t.session_id, message |-> m]
           \/ UNCHANGED <<state, last_event>>
        /\ UNCHANGED <<delivered, removed_parts, pending, reasked, connVars, decodeVars,
                       parseVars, reply, paperVars>>

\* app.rs:1119-1122: the user confirms clearing the chat; what the user cleared
\* is no longer expected in the store
ClearChat ==
    \E sid \in FollowedSessions :
        /\ state' = set_messages(state, sid, <<>>)
        /\ last_event' = [type |-> "local.clear_chat", session_id |-> sid]
        /\ delivered' = [k \in DOMAIN delivered |->
                            IF k[1] = sid THEN NoValue ELSE delivered[k]]
        /\ UNCHANGED <<removed_parts, pending, reasked, connVars, decodeVars, parseVars,
                       inflight, reply, paperVars>>

NextMessages ==
    \/ SessionMessageCreated
    \/ SessionMessageUpdated
    \/ MessageRemoved
    \/ SessionDeleted
    \/ SetSession
    \/ LoadServed
    \/ LoadReturned
    \/ SendMessage
    \/ SendMessageDone
    \/ ClearChat

SpecMessages == Init /\ [][NextMessages]_vars

\* C15: each session's message list contains at most one Message per message
\* id, after any sequence of message events, send completions and list loads.
C15_MessageIdsUnique ==
    \A sid \in DOMAIN state.messages :
        \A i, j \in 1..Len(state.messages[sid]) :
            i /= j => state.messages[sid][i].id /= state.messages[sid][j].id

\* C16: a message delivered by a message.created or message.updated event is
\* in its session's list, with the content of the latest such event, until a
\* message.removed or session.deleted event for it is applied.
C16_DeliveredMessagesStay ==
    \A sid \in SessionIds, mid \in MessageIds :
        delivered[<<sid, mid>>] /= NoValue =>
            \E i \in 1..Len(MapGet(state.messages, sid)) :
                state.messages[sid][i] =
                    [id |-> mid, session_id |-> sid, content |-> delivered[<<sid, mid>>]]

----------------------------------------------------------------------------
(* Paper trading (stanley-core, paper_trade/state.rs). Amounts are f64 in    *)
(* the code; the model uses whole numbers, on which f64 sums, differences    *)
(* and products are exact, and writes a quotient as <<numerator,             *)
(* denominator>> in lowest terms. Timestamps are the token "now". No price   *)
(* feed runs, so no position has a market value.                             *)

MaxTrades == 2

PaperSymbols == {"aapl", "AAPL", "msft"}
PaperShares == {1, 2}
PaperPrices == {1, 3}
PaperCapitals == {-1, 5}
PaperStrategies == {"Momentum"}
PaperSymbolLists == {<<"aapl">>}

\* str::to_uppercase / str::to_lowercase on the names used here
to_uppercase(x) ==
    CASE x = "aapl" -> "AAPL"
      [] x = "msft" -> "MSFT"
      [] OTHER -> x

to_lowercase(x) ==
    CASE x = "Momentum" -> "momentum"
      [] OTHER -> x

RECURSIVE GCD(_, _)
GCD(a, b) == IF b = 0 THEN a ELSE GCD(b, a % b)

Abs(a) == IF a < 0 THEN -a ELSE a

\* The quotient n / d, d > 0, in lowest terms
Quotient(n, d) ==
    LET g == GCD(Abs(n), d)
    IN  IF n = 0 THEN <<0, 1>> ELSE <<n \div g, d \div g>>

\* Result<T>: Ok(value) or Err(error); Option<T> is <<>> or <<value>>
Ok(value) == [ok |-> TRUE, value |-> value]
Err(error) == [ok |-> FALSE, value |-> [kind |-> error]]
Unit == [kind |-> "unit"]

\* PaperPosition::new (state.rs:65-76)
PaperPosition_new(symbol, shares, entry_price) ==
    [symbol |-> to_uppercase(symbol), shares |-> shares, entry_price |-> <<entry_price, 1>>,
     market_value |-> NoValue, opened_at |-> "now"]

\* Trade::new (types.rs:192-202) and Trade::with_pnl (types.rs:205-208)
Trade_new(symbol, side, shares, price, pnl) ==
    [symbol |-> to_uppercase(symbol), side |-> side, shares |-> shares, price |-> price,
     value |-> shares * price, pnl |-> pnl]

\* iter().position(|p| p.symbol == symbol): counted from 1; 0 stands for None
IndexOfSymbol(v, symbol) ==
    IF \E i \in 1..Len(v) : v[i].symbol = symbol
    THEN CHOOSE i \in 1..Len(v) :
            v[i].symbol = symbol /\ \A j \in 1..(i - 1) : v[j].symbol /= symbol
    ELSE 0

\* A plausible slip: start does not look at the active flag
start_noguard(st, strategy, strategy_name, symbols, capital) ==
    [state |-> [st EXCEPT !.active = TRUE,
                          !.strategy = to_lowercase(strategy),
                          !.strategy_name = strategy_name,
                          !.symbols = [i \in 1..Len(symbols) |-> to_uppercase(symbols[i])],
                          !.capital = capital,
                          !.starting_capital = capital,
                          !.positions = <<>>,
                          !.trades = <<>>,
                          !.started_at = "now",
                          !.updated_at = "now"],
     result |-> Ok(Unit)]

\* PaperTradingState::start (state.rs:205-230)
start(st, strategy, strategy_name, symbols, capital) ==
    IF st.active THEN [state |-> st, result |-> Err("InvalidOperation")]
    ELSE [state |-> [st EXCEPT !.active = TRUE,
                               !.strategy = to_lowercase(strategy),
                               !.strategy_name = strategy_name,
                               !.symbols = [i \in 1..Len(symbols) |-> to_uppercase(symbols[i])],
                               !.capital = capital,
                               !.starting_capital = capital,
                               !.positions = <<>>,
                               !.trades = <<>>,
                               !.started_at = "now",
                               !.updated_at = "now"],
          result |-> Ok(Unit)]

\* PaperTradingState::stop (state.rs:233-291)
stop(st) ==
    IF ~st.active THEN [state |-> st, result |-> Err("InvalidOperation")]
    ELSE LET final_capital == st.capital + 0
             winning_trades ==
                Cardinality({i \in 1..Len(st.trades) :
                    st.trades[i].pnl /= <<>> /\ st.trades[i].pnl[1][1] > 0})
             result ==
                [strategy |-> st.strategy,
                 strategy_name |-> st.strategy_name,
                 symbols |-> st.symbols,
                 starting_capital |-> st.starting_capital,
                 final_capital |-> final_capital,
                 total_return_percent |->
                    IF st.starting_capital > 0
                    THEN Quotient((final_capital - st.starting_capital) * 100,
                                  st.starting_capital)
                    ELSE <<0, 1>>,
                 total_trades |-> Len(st.trades),
                 win_rate_percent |->
                    IF st.trades /= <<>>
                    THEN Quotient(winning_trades * 100, Len(st.trades))
                    ELSE <<0, 1>>,
                 started_at |-> st.started_at,
                 stopped_at |-> "now"]
         IN  [state |-> [st EXCEPT !.active = FALSE,
                                   !.strategy = NoValue,
                                   !.strategy_name = NoValue,
                                   !.symbols = <<>>,
                                   !.capital = 0,
                                   !.starting_capital = 0,
                                   !.positions = <<>>,
                                   !.trades = <<>>,
                                   !.started_at = NoValue,
                                   !.last_session = <<result>>],
              result |-> Ok(result)]

\* A plausible slip: every buy opens a new position
buy_push(st, symbol, shares, price) ==
    LET cost == shares * price
        symbol_upper == to_uppercase(symbol)
        trade == Trade_new(symbol_upper, "Buy", shares, price, <<>>)
    IN  IF ~st.active THEN [state |-> st, result |-> Err("InvalidOperation")]
        ELSE IF cost > st.capital THEN [state |-> st, result |-> Err("InvalidOperation")]
        ELSE [state |-> [st EXCEPT
                    !.capital = @ - cost,
                    !.positions = Append(@, PaperPosition_new(symbol_upper, shares, price)),
                    !.trades = Append(@, trade),
                    !.updated_at = "now"],
              result |-> Ok(trade)]

\* PaperTradingState::buy (state.rs:294-337)
buy(st, symbol, shares, price) ==
    LET cost == shares * price
        symbol_upper == to_uppercase(symbol)
        i == IndexOfSymbol(st.positions, symbol_upper)
        pos == st.positions[i]
        total_shares == pos.shares + shares
        trade == Trade_new(symbol_upper, "Buy", shares, price, <<>>)
    IN  IF ~st.active THEN [state |-> st, result |-> Err("InvalidOperation")]
        ELSE IF cost > st.capital THEN [state |-> st, result |-> Err("InvalidOperation")]
        ELSE [state |-> [st EXCEPT
                    !.capital = @ - cost,
                    !.positions =
                        IF i > 0
                        THEN [@ EXCEPT ![i] = [pos EXCEPT
                                !.entry_price =
                                    Quotient(pos.shares * pos.entry_price[1]
                                                + shares * price * pos.entry_price[2],
                                             pos.entry_price[2] * total_shares),
                                !.shares = total_shares]]
                        ELSE Append(@, PaperPosition_new(symbol_upper, shares, price)),
                    !.trades = Append(@, trade),
                    !.updated_at = "now"],
              result |-> Ok(trade)]

\* PaperTradingState::sell (state.rs:340-385)
sell(st, symbol, shares, price) ==
    LET symbol_upper == to_uppercase(symbol)
        pos_idx == IndexOfSymbol(st.positions, symbol_upper)
        position == st.positions[pos_idx]
        exit_value == shares * price
        pnl == Quotient(exit_value * position.entry_price[2] - shares * position.entry_price[1],
                        position.entry_price[2])
        remaining_shares == position.shares - shares
        trade == Trade_new(symbol_upper, "Sell", shares, price, <<pnl>>)
    IN  IF ~st.active THEN [state |-> st, result |-> Err("InvalidOperation")]
        ELSE IF pos_idx = 0 THEN [state |-> st, result |-> Err("PositionNotFound")]
        ELSE IF shares > position.shares
             THEN [state |-> st, result |-> Err("InvalidOperation")]
        ELSE [state |-> [st EXCEPT
                    !.capital = @ + exit_value,
                    !.positions =
                        IF remaining_shares <= 0
                        THEN SubSeq(@, 1, pos_idx - 1) \o SubSeq(@, pos_idx + 1, Len(@))
                        ELSE [@ EXCEPT ![pos_idx].shares = remaining_shares],
                    !.trades = Append(@, trade),
                    !.updated_at = "now"],
              result |-> Ok(trade)]

\* What a call returned, as paper_result keeps it
Returned(op, args, result) ==
    [op |-> op, args |-> args, ok |-> result.ok, value |-> result.value]

\* A call of start with a strategy get_strategy knows (bin/stanley.rs:219-257)
PaperStart ==
    \E strategy \in PaperStrategies, symbols \in PaperSymbolLists, capital \in PaperCapitals :
        LET r == start(paper, strategy, "Momentum Strategy", symbols, capital)
        IN  /\ paper' = r.state
            /\ paper_result' = Returned("start", <<>>, r.result)
            /\ UNCHANGED <<storeVars, connVars, decodeVars, parseVars, inflight, reply>>

\* A call of stop (bin/stanley.rs:258-267)
PaperStop ==
    LET r == stop(paper)
    IN  /\ paper' = r.state
        /\ paper_result' = Returned("stop", <<>>, r.result)
        /\ UNCHANGED <<storeVars, connVars, decodeVars, parseVars, inflight, reply>>

\* A call of buy (bin/stanley.rs:272-289)
PaperBuy ==
    \E symbol \in PaperSymbols, shares \in PaperShares, price \in PaperPrices :
        LET r == buy(paper, symbol, shares, price)
        IN  /\ Len(paper.trades) < MaxTrades
            /\ paper' = r.state
            /\ paper_result' = Returned("buy", <<symbol, shares, price>>, r.result)
            /\ UNCHANGED <<storeVars, connVars, decodeVars, parseVars, inflight, reply>>

\* A call of sell (bin/stanley.rs:290-307)
PaperSell ==
    \E symbol \in PaperSymbols, shares \in PaperShares, price \in PaperPrices :
        LET r == sell(paper, symbol, shares, price)
        IN  /\ Len(paper.trades) < MaxTrades
            /\ paper' = r.state
            /\ paper_result' = Returned("sell", <<symbol, shares, price>>, r.result)
            /\ UNCHANGED <<storeVars, connVars, decodeVars, parseVars, inflight, reply>>

NextPaper ==
    \/ PaperStart
    \/ PaperStop
    \/ PaperBuy
    \/ PaperSell

SpecPaper == Init /\ [][NextPaper]_vars

\* The fields a failed call must leave alone
Guarded(st) == <<st.active, st.strategy, st.capital, st.positions, st.trades>>

\* The error a call returned, "" when it returned Ok
Failure(r) == IF r.ok THEN "" ELSE r.value.kind

\* C18: start succeeds exactly when no session is active and otherwise returns
\* InvalidOperation; stop, buy and sell on an inactive session return
\* InvalidOperation; a call that returns an error leaves active, strategy,
\* capital, positions and trades as they were.
C18_ActiveFlagGuards ==
    [][LET r == paper_result'
       IN  /\ r.op = "start" => (r.ok <=> ~paper.active)
           /\ (r.op = "start" /\ paper.active) => Failure(r) = "InvalidOperation"
           /\ (r.op \in {"stop", "buy", "sell"} /\ ~paper.active)
                    => Failure(r) = "InvalidOperation"
           /\ ~r.ok => Guarded(paper') = Guarded(paper)]_vars

\* A start refused on a session that already holds a position and a trade
C18_Witness ==
    /\ paper_result.op = "start"
    /\ Failure(paper_result) = "InvalidOperation"
    /\ paper.active
    /\ paper.strategy = "momentum"
    /\ paper.capital = 3
    /\ Len(paper.positions) = 1
    /\ Len(paper.trades) = 1

\* C19: in an active session buy fails with InvalidOperation when shares*price
\* exceeds the capital, sell fails with PositionNotFound when the symbol has no
\* position and with InvalidOperation when more shares are asked than are held,
\* each failure leaves capital, positions and trades as they were, and the
\* capital of an active session is never negative.
C19_FailuresKeepCapital ==
    [][LET r == paper_result'
           i == IndexOfSymbol(paper.positions, to_uppercase(r.args[1]))
       IN  /\ (r.op = "buy" /\ paper.active /\ r.args[2] * r.args[3] > paper.capital)
                    => Failure(r) = "InvalidOperation"
           /\ (r.op = "sell" /\ paper.active /\ i = 0)
                    => Failure(r) = "PositionNotFound"
           /\ (r.op = "sell" /\ paper.active /\ i > 0 /\ r.args[2] > paper.positions[i].shares)
                    => Failure(r) = "InvalidOperation"
           /\ (r.op \in {"buy", "sell"} /\ ~r.ok)
                    => /\ paper'.capital = paper.capital
                       /\ paper'.positions = paper.positions
                       /\ paper'.trades = paper.trades
           /\ paper'.active => paper'.capital >= 0]_vars

\* C20: the position list holds at most one position per upper-cased symbol,
\* each with more than zero shares; a buy of a held symbol adds its shares to
\* the position it has, and selling the whole holding removes the position.
C20_OnePositionPerSymbol ==
    /\ \A i, j \in 1..Len(paper.positions) :
            paper.positions[i].symbol = paper.positions[j].symbol => i = j
    /\ \A i \in 1..Len(paper.positions) :
            /\ paper.positions[i].symbol = to_uppercase(paper.positions[i].symbol)
            /\ paper.positions[i].shares > 0

\* aapl bought twice under two spellings is one position of the summed shares
C20_Witness ==
    /\ paper_result.op = "buy"
    /\ paper_result.ok
    /\ paper_result.args[1] = "aapl"
    /\ Len(paper.trades) = 2
    /\ Len(paper.positions) = 1
    /\ paper.positions[1].symbol = "AAPL"
    /\ paper.positions[1].shares = 3
    /\ paper.positions[1].entry_price = <<5, 3>>

----------------------------------------------------------------------------
(* Upserts and removals of absent entities *)

\* v holds an element equal to x
Holds(v, x) == \E i \in 1..Len(v) : v[i] = x

\* C21: session.updated, message.updated, message.part.updated,
\* permission.asked and question.asked that name an entity not yet in the
\* store insert it: after the event the entity is present with the event's
\* payload.
C21_UpdatesUpsert ==
    [][LET ev == last_event'
       IN  /\ (ev.type = "session.updated" /\ IndexOfId(state.sessions, ev.session.id) = 0)
                => Holds(state'.sessions, ev.session)
           /\ (ev.type = "message.updated"
                    /\ IndexOfId(MapGet(state.messages, ev.session_id), ev.message.id) = 0)
                => Holds(MapGet(state'.messages, ev.session_id), ev.message)
           /\ (ev.type = "message.part.updated"
                    /\ IndexOfId(MapGet(state.parts, ev.part.message_id), ev.part.id) = 0)
                => Holds(MapGet(state'.parts, ev.part.message_id), ev.part)
           /\ (ev.type = "permission.asked"
                    /\ IndexOfId(MapGet(state.permissions, ev.request.session_id),
                                 ev.request.id) = 0)
                => Holds(MapGet(state'.permissions, ev.request.session_id), ev.request)
           /\ (ev.type = "question.asked"
                    /\ IndexOfId(MapGet(state.questions, ev.request.session_id),
                                 ev.request.id) = 0)
                => Holds(MapGet(state'.questions, ev.request.session_id), ev.request)]_vars

\* C22: removal events that name an entity not present in the store are
\* no-ops: message.removed for a message id not in the session's list,
\* message.part.removed for an unknown part, permission.replied and
\* question.replied for an unknown request leave the store unchanged.
C22_AbsentRemovalsAreNoOps ==
    [][LET ev == last_event'
       IN  /\ (ev.type = "message.removed"
                    /\ IndexOfId(MapGet(state.messages, ev.session_id), ev.message_id) = 0)
                => state' = state
           /\ (ev.type = "message.part.removed"
                    /\ IndexOfId(MapGet(state.parts, ev.message_id), ev.part_id) = 0)
                => state' = state
           /\ (ev.type = "permission.replied"
                    /\ IndexOfId(MapGet(state.permissions, ev.session_id), ev.request_id) = 0)
                => state' = state
           /\ (ev.type = "question.replied"
                    /\ IndexOfId(MapGet(state.questions, ev.session_id), ev.request_id) = 0)
                => state' = state]_vars

----------------------------------------------------------------------------
(* Session deletion: a store that holds, for two sessions, the session, its  *)
(* selection, messages, parts, status and pending requests, and the          *)
(* session.deleted event (events.rs:110-113, state.rs:281-289).              *)

ScopedSessions == {x \in Sessions : x.title = "t1"}
ScopedMessages ==
    {x \in Messages : x.content = "a" /\ <<x.session_id, x.id>> \in {<<"s1", "m1">>, <<"s2", "m2">>}}
ScopedParts == {x \in Parts : x.id = Id_p1 /\ x.message_id = "m1" /\ x.content = "a"}
ScopedPermissions ==
    {x \in PermissionRequests : x.id = Id_p1 /\ x.session_id = "s1" /\ x.permission = "a"}
ScopedQuestions ==
    {x \in QuestionRequests : x.id = Id_p1 /\ x.session_id = "s1" /\ x.questions = "a"}

ScopedSessionCreated == SessionCreatedOf(ScopedSessions)
ScopedMessageCreated == MessageCreatedOf(ScopedMessages)
ScopedPartUpdated == MessagePartUpdatedOf(ScopedParts)
ScopedPermissionAsked == PermissionAskedOf(ScopedPermissions)
ScopedQuestionAsked == QuestionAskedOf(ScopedQuestions)

\* events.rs:115-118
SessionStatusChanged ==
    \E sid \in SessionIds :
        /\ Apply([type |-> "session.status", session_id |-> sid, status |-> [busy |-> TRUE]])
        /\ UNCHANGED <<pending, reasked, connVars, decodeVars, parseVars, inflight, reply, paperVars>>

NextDeletion ==
    \/ ScopedSessionCreated
    \/ SelectSession
    \/ ScopedMessageCreated
    \/ ScopedPartUpdated
    \/ ScopedPermissionAsked
    \/ ScopedQuestionAsked
    \/ SessionStatusChanged
    \/ SessionDeleted

SpecDeletion == Init /\ [][NextDeletion]_vars

\* C23: session.deleted for id S removes every Session with id S and S's
\* message list, and clears the active-session selection exactly when it
\* equals S; every other session, every other session's message list and a
\* selection that names another session are left unchanged.
C23_SessionDeletedFrame ==
    [][last_event'.type = "session.deleted" =>
        LET S == last_event'.session_id
        IN  /\ \A i \in 1..Len(state'.sessions) : state'.sessions[i].id /= S
            /\ state'.sessions = SelectSeq(state.sessions, LAMBDA x : x.id /= S)
            /\ DOMAIN state'.messages = DOMAIN state.messages \ {S}
            /\ \A k \in DOMAIN state'.messages : state'.messages[k] = state.messages[k]
            /\ state'.active_session_id =
                    IF state.active_session_id = S THEN NoValue
                    ELSE state.active_session_id]_vars

\* s1, listed twice and holding a message, was deleted while s2 was selected:
\* s2, its message list and the selection remain
C23_Witness ==
    /\ last_event = [type |-> "session.deleted", session_id |-> "s1"]
    /\ delivered[<<"s1", "m1">>] = NoValue
    /\ Len(state.sessions) = 1
    /\ state.sessions[1].id = "s2"
    /\ DOMAIN state.messages = {"s2"}
    /\ Len(state.messages["s2"]) = 1
    /\ state.active_session_id = "s2"

\* C29: after session.deleted for session S has been applied, the store holds
\* nothing that still belongs to S: no status record for S, no pending
\* permission or question request for S, and no parts keyed to a message that
\* was in S's message list.
C29_DeletedSessionLeavesNothing ==
    [][last_event'.type = "session.deleted" =>
        LET S == last_event'.session_id
            was == MapGet(state.messages, S)
        IN  /\ S \notin DOMAIN state'.session_status
            /\ MapGet(state'.permissions, S) = <<>>
            /\ MapGet(state'.questions, S) = <<>>
            /\ \A i \in 1..Len(was) : MapGet(state'.parts, was[i].id) = <<>>]_vars

----------------------------------------------------------------------------
(* Keepalive blocks and block labels *)

\* The label of the last event: line, without the prefix and outer blanks
LastLabel(t) ==
    LET l == Lines(t)[Max(EventLineIndexes(t))]
        body == SubSeq(l, 2, Len(l))
        nonblank == {i \in 1..Len(body) : body[i] /= " "}
    IN  IF nonblank = {} THEN <<>>
        ELSE SubSeq(body, CHOOSE i \in nonblank : \A j \in nonblank : i <= j, Max(nonblank))

\* The block carries the label
Labelled(t, label) == EventLineIndexes(t) /= {} /\ LastLabel(t) = <<label>>

C24_KeepaliveWithDataLine ==
    (daemon_out /= Pending /\ Labelled(parse_input, "keepalive")
            /\ DataLineIndexes(parse_input) /= {})
        => daemon_out.type = "keepalive"

C24_HeartbeatLeavesStore == handle_event(state, [type |-> "keepalive"]) = state

----------------------------------------------------------------------------
(* End of the byte source inside a block: the peer's bytes stop at any point *)
(* of the serialised blocks (client.rs:350, 375-380, 444, 466).              *)

TrailingBlocks ==
    { Block(TRUE, "keepalive", TRUE, <<"a">>),
      Block(FALSE, "", TRUE, <<"a">>),
      Block(TRUE, "tool_call_start", TRUE, <<"x">>) }

InitTrailing ==
    /\ StoreInit /\ ConnInit /\ ParseIdle /\ LocalIdle /\ PaperIdle
    /\ stream \in {"daemon", "sse"}
    /\ blocks \in UNION {[1..n -> TrailingBlocks] : n \in 1..MaxBlocks}
    /\ wire \in {SubSeq(WireOf(blocks), 1, n) : n \in 0..Len(WireOf(blocks))}
    /\ sent = 0
    /\ buffer = <<>>
    /\ events = <<>>
    /\ closed = "open"

SpecTrailing == InitTrailing /\ [][NextDecode]_vars

\* The text after the last blank line of t: the block that was never closed
RECURSIVE Unclosed(_)
Unclosed(t) ==
    LET pos == FindBlankLine(t)
    IN  IF pos = 0 THEN t ELSE Unclosed(SubSeq(t, pos + 2, Len(t)))

\* The events of the blocks of t that a blank line closes, in wire order
RECURSIVE ClosedEvents(_, _)
ClosedEvents(t, str) ==
    LET pos == FindBlankLine(t)
        ev == IF str = "daemon" THEN parse_daemon_event_message(SubSeq(t, 1, pos - 1))
              ELSE parse_sse_message(SubSeq(t, 1, pos - 1))
    IN  IF pos = 0 THEN <<>>
        ELSE (IF ev = NoneEvent THEN <<>> ELSE <<ev>>)
             \o ClosedEvents(SubSeq(t, pos + 2, Len(t)), str)

\* C25: when the byte source ends while the buffer holds a non-empty block
\* that no blank line closed, the message-generation decoder decodes that
\* buffer as one final block and emits its event, while the daemon decoder
\* emits nothing for it.
C25_TrailingBlockAtEnd ==
    closed = "end" =>
        LET text == utf8_decode(wire)
            last == parse_sse_message(Unclosed(text))
        IN  /\ stream = "daemon" => events = ClosedEvents(text, "daemon")
            /\ stream = "sse" =>
                    events = ClosedEvents(text, "sse")
                             \o (IF Unclosed(text) /= <<>> /\ last /= NoneEvent
                                 THEN <<last>> ELSE <<>>)

\* The message stream ended in the middle of its second block: the unclosed
\* data line was decoded as the final block
C25_Witness ==
    /\ closed = "end"
    /\ stream = "sse"
    /\ blocks = <<Block(TRUE, "keepalive", TRUE, <<"a">>), Block(FALSE, "", TRUE, <<"a">>)>>
    /\ Len(wire) = Len(WireOf(blocks)) - 2
    /\ buffer = <<"data:", " ", "a">>
    /\ events = <<[type |-> "Content", data |-> <<"a">>], [type |-> "Content", data |-> <<"a">>]>>

\* C30: a decoder stream ends at its first read error: after a decoder has
\* yielded an error item it yields no further item, and the bytes buffered
\* before the error are not decoded into events.
C30_NothingAfterReadError ==
    \A i \in 1..Len(events) : events[i] = ErrItem => i = Len(events)

\* Supporting check: the daemon decoder yields nothing after its error item
C30_DaemonEndsAtError ==
    stream = "daemon" => \A i \in 1..Len(events) : events[i] = ErrItem => i = Len(events)

\* Blocks of up to MaxLines lines over every label of the message-generation
\* vocabulary, two labels outside it, and parseable, unparseable and empty
\* payloads
LabelLines ==
    {<<"event:", " ", l>> :
        l \in {"content", "text", "tool_call_start", "tool_call_end", "reasoning",
               "done", "end", "error", "zzz", "keepalive"}}
    \cup {<<"event:">>}
    \cup {<<"data:", " ", "a">>, <<"data:", " ", "x">>, <<"data:">>}

InitLabels ==
    /\ StoreInit /\ ConnInit /\ DecodeIdle /\ LocalIdle /\ PaperIdle
    /\ parse_input \in {JoinLines(ls) : ls \in UNION {[1..n -> LabelLines] : n \in 1..MaxLines}}
    /\ sse_out = Pending
    /\ daemon_out = Pending

SpecLabels == InitLabels /\ [][NextParse]_vars

\* The label a block carries on the message-generation stream: a block
\* without an event: line is a "message"
SseLabel(t) == IF EventLineIndexes(t) = {} THEN <<"message">> ELSE LastLabel(t)

\* C26: on the message-generation stream a block with a data: line is
\* discarded only when its label is tool_call_start or tool_call_end and its
\* payload fails to parse: content/text give Content, reasoning gives
\* Reasoning, error gives Error, done/end always give Done (with a default
\* Message when the payload does not parse), every other label gives Content
\* with the payload; on the daemon stream a block with an unrecognised label
\* gives no event.
C26_LabelsOfTheMessageStream ==
    /\ (sse_out /= Pending /\ DataLineIndexes(parse_input) /= {}) =>
            LET label == SseLabel(parse_input)
                payload == LastPayload(parse_input)
            IN  /\ sse_out = NoneEvent =>
                        (label \in {<<"tool_call_start">>, <<"tool_call_end">>}
                            /\ ~json_parses(payload))
                /\ label \in {<<"content">>, <<"text">>}
                        => sse_out = [type |-> "Content", data |-> payload]
                /\ (label = <<"tool_call_start">> /\ json_parses(payload))
                        => sse_out = [type |-> "ToolCallStart", data |-> payload]
                /\ (label = <<"tool_call_end">> /\ json_parses(payload))
                        => sse_out = [type |-> "ToolCallEnd", data |-> payload]
                /\ label = <<"reasoning">> => sse_out = [type |-> "Reasoning", data |-> payload]
                /\ label = <<"error">> => sse_out = [type |-> "Error", data |-> payload]
                /\ label \in {<<"done">>, <<"end">>}
                        => sse_out = [type |-> "Done",
                                      data |-> IF json_parses(payload) THEN payload
                                               ELSE DefaultMessage]
                /\ label \notin {<<"content">>, <<"text">>, <<"tool_call_start">>,
                                  <<"tool_call_end">>, <<"reasoning">>, <<"error">>,
                                  <<"done">>, <<"end">>}
                        => sse_out = [type |-> "Content", data |-> payload]
    /\ (daemon_out /= Pending /\ EventLineIndexes(parse_input) /= {}
            /\ \A l \in DaemonPayloadLabels \cup {"keepalive"} :
                    LastLabel(parse_input) /= <<l>>)
            => daemon_out = NoneEvent

\* A block labelled zzz was kept as opaque content on the message stream and
\* gave no event on the daemon stream
C26_Witness ==
    /\ parse_input = <<"event:", " ", "zzz", "\n", "data:", " ", "a">>
    /\ sse_out = [type |-> "Content", data |-> <<"a">>]
    /\ daemon_out = NoneEvent

----------------------------------------------------------------------------
(* The in-progress streaming record (state.rs:320-356). last_event names the *)
(* call and carries since_start, the content deltas applied to the record    *)
(* since it was started, in arrival order.                                   *)

MaxDeltas == 3

Deltas == {<<"a">>, <<"b", "a">>}
ToolCallIds == {"t1", "t2"}
ToolCalls ==
    [id : ToolCallIds, name : {"bash"}, input : {"a"}, output : {NoValue},
     status : {"Pending", "Success"}]

SinceStart == IF last_event.type = "none" THEN <<>> ELSE last_event.since_start

StartStreaming ==
    \E sid \in {"s1"}, mid \in MessageIds :
        /\ state' = start_streaming(state, sid, mid)
        /\ last_event' = [type |-> "local.start_streaming", since_start |-> <<>>]
        /\ UNCHANGED <<delivered, removed_parts, pending, reasked, connVars, decodeVars, parseVars, inflight, reply, paperVars>>

UpdateStreamingContent ==
    \E content \in Deltas :
        /\ Len(SinceStart) < MaxDeltas
        /\ state' = update_streaming_content(state, content)
        /\ last_event' = [type |-> "local.update_streaming_content", content |-> content,
                          since_start |-> IF state.streaming_message = <<>> THEN <<>>
                                          ELSE Append(SinceStart, content)]
        /\ UNCHANGED <<delivered, removed_parts, pending, reasked, connVars, decodeVars, parseVars, inflight, reply, paperVars>>

UpdateStreamingToolCall ==
    \E tool_call \in ToolCalls :
        /\ state' = update_streaming_tool_call(state, tool_call)
        /\ last_event' = [type |-> "local.update_streaming_tool_call", tool_call |-> tool_call,
                          since_start |-> SinceStart]
        /\ UNCHANGED <<delivered, removed_parts, pending, reasked, connVars, decodeVars, parseVars, inflight, reply, paperVars>>

CompleteStreaming ==
    /\ state' = complete_streaming(state)
    /\ last_event' = [type |-> "local.complete_streaming", since_start |-> SinceStart]
    /\ UNCHANGED <<delivered, removed_parts, pending, reasked, connVars, decodeVars, parseVars, inflight, reply, paperVars>>

NextStreaming ==
    \/ StartStreaming
    \/ UpdateStreamingContent
    \/ UpdateStreamingToolCall
    \/ CompleteStreaming

SpecStreaming == Init /\ [][NextStreaming]_vars

\* The strings of ds joined in order
RECURSIVE Concat(_)
Concat(ds) == IF ds = <<>> THEN <<>> ELSE Head(ds) \o Concat(Tail(ds))

\* C27: the streaming record's content is the concatenation, in arrival
\* order, of the content deltas applied to it; its tool-call list holds at
\* most one entry per tool-call id, the latest update for that id;
\* is_complete is false until complete_streaming sets it; content, tool-call
\* and completion updates applied when no record exists change nothing.
C27_StreamingRecord ==
    [][LET op == last_event'
           was == state.streaming_message
           now == state'.streaming_message
       IN  /\ now /= <<>> =>
                /\ now[1].content = Concat(op.since_start)
                /\ \A i, j \in 1..Len(now[1].tool_calls) :
                        now[1].tool_calls[i].id = now[1].tool_calls[j].id => i = j
           /\ (op.type = "local.update_streaming_tool_call" /\ was /= <<>>) =>
                /\ Holds(now[1].tool_calls, op.tool_call)
                /\ \A i \in 1..Len(was[1].tool_calls) :
                        was[1].tool_calls[i].id /= op.tool_call.id
                            => now[1].tool_calls[i] = was[1].tool_calls[i]
           /\ (now /= <<>> /\ now[1].is_complete) =>
                \/ op.type = "local.complete_streaming"
                \/ (was /= <<>> /\ was[1].is_complete /\ op.type /= "local.start_streaming")
           /\ (op.type = "local.start_streaming") => ~now[1].is_complete
           /\ (was = <<>> /\ op.type /= "local.start_streaming") => state' = state]_vars

\* Two deltas were joined in order and the tool call t1 was updated in place
\* beside t2, before completion
C27_Witness ==
    /\ last_event.type = "local.update_streaming_tool_call"
    /\ last_event.since_start = <<(<<"b", "a">>), (<<"a">>)>>
    /\ state.streaming_message /= <<>>
    /\ state.streaming_message[1].content = <<"b", "a", "a">>
    /\ Len(state.streaming_message[1].tool_calls) = 2
    /\ state.streaming_message[1].tool_calls[1] =
            [id |-> "t1", name |-> "bash", input |-> "a", output |-> NoValue,
             status |-> "Success"]
    /\ state.streaming_message[1].tool_calls[2].id = "t2"
    /\ ~state.streaming_message[1].is_complete

----------------------------------------------------------------------------
(* One event stream at a time (events.rs:30-90) *)

\* C28: at most one daemon event-stream connection is open at any time, and
\* a daemon event is applied only between a successful handshake and the
\* termination of that same connection: none during backoff or connecting,
\* and none of an earlier connection after the next one has been opened.
C28_OneConnectionAtATime ==
    [][/\ Cardinality(subscription'.open) <= 1
       /\ pc' \in {"backoff", "connecting"} => subscription'.open = {}
       /\ pc \in {"idle", "backoff", "connecting", "stopped"}
            => (last_event' = last_event /\ subscription'.source = subscription.source)
       /\ (last_event' /= last_event \/ subscription'.source /= subscription.source)
            => /\ pc = "streaming" /\ pc' = "streaming"
               /\ subscription'.source = subscription.last
               /\ subscription'.source \in subscription.open
               /\ subscription'.open = subscription.open]_vars

\* The second connection is open, the first is not, and the event applied
\* last was read from the second
C28_Witness ==
    /\ pc = "streaming"
    /\ subscription = [open |-> {1}, last |-> 1, source |-> 1]
    /\ last_event = [type |-> "connection.status", connected |-> FALSE]
    /\ failures = 0
    /\ ever_connected

====
